---- MODULE Spec2Model ----
(***************************************************************************)
(* VectorMind: the document chunking subsystem (package splitter) and the  *)
(* split-and-store handlers (package api) that drive it.                   *)
(*                                                                         *)
(* Strings are sequences of one-character strings; a Go slice expression   *)
(* s[a:b] (0-based, half open) is Slice(s, a, b).  Lengths are byte        *)
(* lengths; the alphabet is ASCII, so bytes and characters coincide.       *)
(***************************************************************************)
EXTENDS Integers, Sequences, FiniteSets, TLC

VARIABLES
    op,                 \* the operation the request runs
    document,           \* req.Document / the text handed to a splitter
    delimiter,          \* req.Delimiter
    chunkSize,          \* req.ChunkSize / ChunkText's chunkSize
    overlap,            \* req.Overlap / ChunkText's overlap
    embeddingDimension, \* api.embeddingDimension (package variable)
    pc,                 \* position of the running operation
    chunks,             \* the splitter's result (chunks / sections)
    nodes,              \* ParseMarkdownHierarchy's result ([]MarkdownChunk)
    idx,                \* index of the piece the handler's outer loop is at
    chunksToStore,      \* the handler's chunksToStore for the current piece
    sub,                \* index into chunksToStore of the inner loop
    embedded,           \* texts handed to CreateEmbeddingFromText, in order
    stored,             \* documents written by StoreEmbedding, in order
    chunkIDs,           \* the handler's chunkIDs
    response,           \* the HTTP response written, or NoResponse
    lineCount,          \* ExtractFirstNonEmptyLines' n
    chunkHeader,        \* the result of a header extraction
    args,               \* request.GetArguments() of an MCP tool call
    loopStart,          \* ChunkText's loop variable start
    request,            \* the HTTP request: method, body, search fields
    docs,               \* the documents the storage engine returned
    results,            \* the results of a search response
    ancestorStack,      \* the ancestor stack of a running parseHierarchy
    calls               \* splitter invocations running side by side

vars == <<op, document, delimiter, chunkSize, overlap, embeddingDimension, pc,
          chunks, nodes, idx, chunksToStore, sub, embedded, stored, chunkIDs,
          response, lineCount, chunkHeader, args, loopStart, request, docs,
          results, ancestorStack, calls>>

----------------------------------------------------------------------------
(* Bounds *)

MaxLen == 5        \* longest text enumerated character by character
MaxChunk == 4      \* largest chunkSize handed to ChunkText directly

----------------------------------------------------------------------------
(* Strings *)

Alphabet == {"#", " ", "\n", "a"}

Min(a, b) == IF a < b THEN a ELSE b

Slice(s, a, b) == SubSeq(s, a + 1, b)

StringsUpTo(n) == UNION {[1..k -> Alphabet] : k \in 0..n}

NoResponse ==
    [status |-> 0, success |-> FALSE, error |-> "", chunkIDs |-> <<>>,
     chunksStored |-> 0]

\* no MCP arguments: the request is not an MCP tool call
NoArgs == [chunk_size |-> 0, overlap |-> 0]

\* a POST request whose body is one JSON object, without label, max_count
\* or distance_threshold
PostRequest ==
    [method |-> "POST", body |-> "object", label |-> <<>>, maxCount |-> 0,
     hasThreshold |-> FALSE, threshold |-> 0]

\* no search is running and no parse is in progress
NoSearch ==
    /\ request = PostRequest /\ docs = <<>> /\ results = <<>>
    /\ ancestorStack = <<>>

\* no splitter invocations run side by side
NoCalls == calls = <<>>

----------------------------------------------------------------------------
(* splitter.ChunkText *)

ChunkEndPastWindow(start, size, n) == Min(start + size + 1, n)

\* end := min(start + chunkSize, len(text))
ChunkEnd(start, size, n) == Min(start + size, n)

ChunkStrideOffByOne(size, ov) == size - ov - 1

ChunkStrideNoOverlap(size, ov) == size

\* start += chunkSize - overlap
ChunkStride(size, ov) == size - ov

RECURSIVE ChunkLoop(_, _, _, _, _)
ChunkLoop(text, size, ov, start, acc) ==
    IF start < Len(text)
    THEN ChunkLoop(text, size, ov, start + ChunkStride(size, ov),
                   Append(acc, Slice(text, start, ChunkEnd(start, size, Len(text)))))
    ELSE acc

\* Only evaluated where the loop terminates (chunkSize - overlap > 0, or
\* the text is empty).
ChunkText(text, size, ov) == ChunkLoop(text, size, ov, 0, <<>>)

----------------------------------------------------------------------------
(* Specification of ChunkText alone: any text, any valid window. *)

IdleRequest ==
    /\ nodes = <<>> /\ idx = 0 /\ chunksToStore = <<>> /\ sub = 0
    /\ embedded = <<>> /\ stored = <<>> /\ chunkIDs = <<>>
    /\ response = NoResponse
    /\ lineCount = 0 /\ chunkHeader = <<>> /\ args = NoArgs /\ loopStart = 0
    /\ docs = <<>> /\ results = <<>> /\ ancestorStack = <<>>

Idle == IdleRequest /\ request = PostRequest /\ NoCalls

InitChunk ==
    /\ op = "ChunkText"
    /\ document \in StringsUpTo(MaxLen)
    /\ chunkSize \in 1..MaxChunk
    /\ overlap \in 0..(chunkSize - 1)
    /\ delimiter = <<>>
    /\ embeddingDimension = 0
    /\ pc = "call"
    /\ chunks = <<>>
    /\ Idle

CallChunkText ==
    /\ op = "ChunkText" /\ pc = "call"
    /\ chunks' = ChunkText(document, chunkSize, overlap)
    /\ pc' = "done"
    /\ UNCHANGED <<op, document, delimiter, chunkSize, overlap,
                   embeddingDimension, nodes, idx, chunksToStore, sub,
                   embedded, stored, chunkIDs, response, lineCount, chunkHeader, args, loopStart,
                   request, docs, results, ancestorStack, calls>>

NextChunk == CallChunkText

SpecChunk == InitChunk /\ [][NextChunk]_vars

ChunkReturned == op = "ChunkText" /\ pc = "done"

\* the start offset of the i-th chunk (1-based)
WindowStart(i) == (i - 1) * (chunkSize - overlap)

----------------------------------------------------------------------------
\* C1: every sub-piece of the oversize subdivision ChunkText(piece, sizeLimit,
\* 0), sizeLimit > 0, has length <= sizeLimit.
C1_SubPiecesWithinLimit ==
    (ChunkReturned /\ overlap = 0) =>
        \A i \in 1..Len(chunks) : Len(chunks[i]) <= chunkSize

C1_Witness ==
    /\ ChunkReturned /\ overlap = 0
    /\ Len(document) > chunkSize
    /\ Len(chunks) >= 2
    /\ Len(chunks[Len(chunks)]) < chunkSize

\* the chunks cover [0, len(text)) with no gaps
Coverage ==
    /\ \A i \in 1..Len(chunks) :
          chunks[i] = Slice(document, WindowStart(i), WindowStart(i) + Len(chunks[i]))
    /\ \A p \in 0..(Len(document) - 1) :
          \E i \in 1..Len(chunks) :
              WindowStart(i) <= p /\ p < WindowStart(i) + Len(chunks[i])
    /\ \A i \in 1..(Len(chunks) - 1) :
          WindowStart(i + 1) <= WindowStart(i) + Len(chunks[i])

\* C3 as stated: total coverage, and every chunk except possibly the last
\* has length exactly windowSize.
C3_AllButLastFull ==
    ChunkReturned =>
        /\ Coverage
        /\ \A i \in 1..(Len(chunks) - 1) : Len(chunks[i]) = chunkSize

\* C3 amended: total coverage, and every chunk whose window lies inside the
\* text has length exactly windowSize; with overlap = 0 that is every chunk
\* except possibly the last.
C3_FullUnlessReachingEnd ==
    ChunkReturned =>
        /\ Coverage
        /\ \A i \in 1..Len(chunks) :
              WindowStart(i) + chunkSize <= Len(document) => Len(chunks[i]) = chunkSize
        /\ overlap = 0 =>
              \A i \in 1..(Len(chunks) - 1) : Len(chunks[i]) = chunkSize

C3_Witness ==
    /\ ChunkReturned /\ overlap > 0
    /\ Len(chunks) >= 3
    /\ \E i \in 1..(Len(chunks) - 1) : Len(chunks[i]) < chunkSize

\* C4: ChunkText returns exactly the windows text[i : min(i+windowSize,
\* len)] for i = 0, s, 2s, ... < len(text), s = windowSize - overlap, in
\* increasing order of i.
C4_ExactWindows ==
    ChunkReturned =>
        LET s == chunkSize - overlap
            n == Len(document)
            count == (n + s - 1) \div s
        IN  /\ Len(chunks) = count
            /\ \A k \in 0..(count - 1) :
                  chunks[k + 1] = Slice(document, k * s, Min(k * s + chunkSize, n))

C4_Witness ==
    /\ ChunkReturned /\ overlap > 0
    /\ Len(document) = MaxLen
    /\ Len(chunks) > 2
    /\ Len(chunks[1]) = chunkSize
    /\ Len(chunks[Len(chunks)]) < chunkSize

----------------------------------------------------------------------------
(* strings.TrimSpace, and the scanning helpers of the header regexp *)

\* \s of Go's regexp syntax: [\t\n\f\r ]
IsSpace(c) == c \in {" ", "\n", "\t", "\r", "\f"}

IsBlank(s) == \A i \in 1..Len(s) : IsSpace(s[i])

\* strings.TrimSpace(s)
TrimSpace(s) ==
    IF IsBlank(s) THEN <<>>
    ELSE LET first == CHOOSE i \in 1..Len(s) :
                          /\ ~IsSpace(s[i])
                          /\ \A j \in 1..(i - 1) : IsSpace(s[j])
             last  == CHOOSE i \in 1..Len(s) :
                          /\ ~IsSpace(s[i])
                          /\ \A j \in (i + 1)..Len(s) : IsSpace(s[j])
         IN  SubSeq(s, first, last)

\* the position after the longest run of \s starting at position i
RECURSIVE SkipSpace(_, _)
SkipSpace(s, i) ==
    IF i < Len(s) /\ IsSpace(s[i + 1]) THEN SkipSpace(s, i + 1) ELSE i

\* the position after the longest run of '#' starting at position i
RECURSIVE SkipHash(_, _)
SkipHash(s, i) ==
    IF i < Len(s) /\ s[i + 1] = "#" THEN SkipHash(s, i + 1) ELSE i

\* the position after the longest run of non-newline characters (.*) at i
RECURSIVE LineEnd(_, _)
LineEnd(s, i) ==
    IF i < Len(s) /\ s[i + 1] # "\n" THEN LineEnd(s, i + 1) ELSE i

\* (?m)^ : the start of the text or the position after a newline
IsLineStart(s, p) == p = 0 \/ s[p] = "\n"

\* The match of (?m)^\s*#+\s+.*$ that begins at position p, if any.  Every
\* quantifier is greedy and none can give back a character to let the rest
\* match, so the leftmost-first match is the greedy scan.  \s matches a
\* newline, so both runs of \s may cross line ends.
HeaderMatchAt(s, p) ==
    LET q == SkipSpace(s, p)
        r == SkipHash(s, q)
        t == SkipSpace(s, r)
        u == LineEnd(s, t)
    IN  IF IsLineStart(s, p) /\ r > q /\ t > r
        THEN [found |-> TRUE, start |-> p, hash |-> q, end |-> u]
        ELSE [found |-> FALSE, start |-> p, hash |-> p, end |-> p]

\* the leftmost match starting at or after position pos
RECURSIVE FirstMatchFrom(_, _)
FirstMatchFrom(s, pos) ==
    IF pos >= Len(s) THEN [found |-> FALSE, start |-> pos, hash |-> pos, end |-> pos]
    ELSE IF HeaderMatchAt(s, pos).found THEN HeaderMatchAt(s, pos)
    ELSE FirstMatchFrom(s, pos + 1)

\* headerRegex.FindAllStringIndex(markdown, -1): successive non-overlapping
\* matches, each search resuming at the end of the previous match
RECURSIVE FindAllFrom(_, _, _)
FindAllFrom(s, pos, acc) ==
    LET m == FirstMatchFrom(s, pos)
    IN  IF m.found THEN FindAllFrom(s, m.end, Append(acc, m)) ELSE acc

FindAllStringIndex(s) == FindAllFrom(s, 0, <<>>)

----------------------------------------------------------------------------
(* splitter.ExtractSectionHeader, splitter.SplitMarkdownBySections *)

ExtractSectionHeader(section) ==
    IF section = <<>> THEN <<>>
    ELSE LET m == FirstMatchFrom(section, 0)
         IN  IF m.found THEN TrimSpace(Slice(section, m.hash, m.end)) ELSE <<>>

\* the section of the i-th header match: from its start to the next match's
\* start, or to the end of the document
SectionOf(markdown, headerMatches, i) ==
    LET start == headerMatches[i].start
        end   == IF i < Len(headerMatches)
                 THEN headerMatches[i + 1].start
                 ELSE Len(markdown)
    IN  TrimSpace(Slice(markdown, start, end))

RECURSIVE SectionsLoop(_, _, _, _)
SectionsLoop(markdown, headerMatches, i, sections) ==
    IF i > Len(headerMatches) THEN sections
    ELSE LET section == SectionOf(markdown, headerMatches, i)
         IN  SectionsLoop(markdown, headerMatches, i + 1,
                          IF section # <<>> THEN Append(sections, section)
                          ELSE sections)

PreHeaderSections(markdown, headerMatches) ==
    IF headerMatches[1].start > 0
    THEN LET preHeader == TrimSpace(Slice(markdown, 0, headerMatches[1].start))
         IN  IF preHeader # <<>> THEN <<preHeader>> ELSE <<>>
    ELSE <<>>

SplitMarkdownBySections(markdown) ==
    IF markdown = <<>> THEN <<>>
    ELSE LET headerMatches == FindAllStringIndex(markdown)
         IN  IF Len(headerMatches) = 0
             THEN <<TrimSpace(markdown)>>
             ELSE SectionsLoop(markdown, headerMatches, 1,
                               PreHeaderSections(markdown, headerMatches))

----------------------------------------------------------------------------
(* Specification of SplitMarkdownBySections alone: any document. *)

InitSections ==
    /\ op \in {"SplitMarkdownBySections", "ExtractSectionHeader"}
    /\ document \in StringsUpTo(MaxLen)
    /\ chunkSize = 0 /\ overlap = 0
    /\ delimiter = <<>>
    /\ embeddingDimension = 0
    /\ pc = "call"
    /\ chunks = <<>>
    /\ Idle

CallSplitMarkdownBySections ==
    /\ op = "SplitMarkdownBySections" /\ pc = "call"
    /\ chunks' = SplitMarkdownBySections(document)
    /\ pc' = "done"
    /\ UNCHANGED <<op, document, delimiter, chunkSize, overlap,
                   embeddingDimension, nodes, idx, chunksToStore, sub,
                   embedded, stored, chunkIDs, response, lineCount, chunkHeader, args, loopStart,
                   request, docs, results, ancestorStack, calls>>

CallExtractSectionHeader ==
    /\ op = "ExtractSectionHeader" /\ pc = "call"
    /\ chunkHeader' = ExtractSectionHeader(document)
    /\ pc' = "done"
    /\ UNCHANGED <<op, document, delimiter, chunkSize, overlap,
                   embeddingDimension, chunks, nodes, idx, chunksToStore, sub,
                   embedded, stored, chunkIDs, response, lineCount, args,
                   loopStart,
                   request, docs, results, ancestorStack, calls>>

NextSections == CallSplitMarkdownBySections \/ CallExtractSectionHeader

SpecSections == InitSections /\ [][NextSections]_vars

SectionsReturned == op = "SplitMarkdownBySections" /\ pc = "done"

(* The heading lines of a document as section 4.3 defines them: a line that *)
(* consists of optional leading whitespace, one or more '#', one or more    *)
(* spaces, then the heading text.  The pattern is applied to each line on   *)
(* its own, so nothing in it can reach into another line.                   *)
LineAt(s, p) == Slice(s, p, LineEnd(s, p))

IsHeadingLineAt(s, p) ==
    /\ p < Len(s)
    /\ IsLineStart(s, p)
    /\ LET line == LineAt(s, p)
           q == SkipSpace(line, 0)
           r == SkipHash(line, q)
           t == SkipSpace(line, r)
       IN  r > q /\ t > r

HeadingLineStarts(s) == {p \in 0..Len(s) : IsHeadingLineAt(s, p)}

\* the elements of a finite set of integers in increasing order
RECURSIVE SortedSeq(_)
SortedSeq(S) ==
    IF S = {} THEN <<>>
    ELSE LET m == CHOOSE x \in S : \A y \in S : x <= y
         IN  <<m>> \o SortedSeq(S \ {m})

\* the sections the claim describes, from the heading lines
ExpectedSections(s) ==
    LET H == SortedSeq(HeadingLineStarts(s))
        pre == TrimSpace(Slice(s, 0, H[1]))
        sec(i) == TrimSpace(Slice(s, H[i],
                      IF i < Len(H) THEN H[i + 1] ELSE Len(s)))
    IN  (IF pre # <<>> THEN <<pre>> ELSE <<>>) \o [i \in 1..Len(H) |-> sec(i)]

\* C9: for a document with at least one heading line, the result is the
\* non-blank trimmed text before the first heading line (if any), then one
\* trimmed section per heading line, from that heading line up to the next
\* heading line or the end of the document.
C9_SectionsPerHeadingLine ==
    (SectionsReturned /\ HeadingLineStarts(document) # {}) =>
        chunks = ExpectedSections(document)

\* C10: a document with no heading line gives [trim(document)] when it is
\* non-blank and [] when it is blank (empty or whitespace only).
C10_HeadinglessDocument ==
    (SectionsReturned /\ HeadingLineStarts(document) = {}) =>
        chunks = IF IsBlank(document) THEN <<>> ELSE <<TrimSpace(document)>>

HeaderReturned == op = "ExtractSectionHeader" /\ pc = "done"

\* the first heading line of a section, trimmed, or "" without one
FirstHeadingLine(s) ==
    LET H == SortedSeq(HeadingLineStarts(s))
    IN  IF Len(H) = 0 THEN <<>> ELSE TrimSpace(LineAt(s, H[1]))

\* C16: a heading is recognised exactly on the heading lines.
\* ExtractSectionHeader returns the first heading line (one line, trimmed)
\* or "" when there is none, so a line of '#' alone is no heading;
\* SplitMarkdownBySections starts one section at every heading line and
\* nowhere else.
C16_HeadingOnOneLine ==
    /\ HeaderReturned =>
          /\ chunkHeader = FirstHeadingLine(document)
          /\ \A i \in 1..Len(chunkHeader) : chunkHeader[i] # "\n"
    /\ (SectionsReturned /\ ~IsBlank(document)) =>
          LET H == SortedSeq(HeadingLineStarts(document))
              lead == IF Len(H) = 0 \/ ~IsBlank(Slice(document, 0, H[1]))
                      THEN 1 ELSE 0
          IN  Len(chunks) = Len(H) + lead

----------------------------------------------------------------------------
(* splitter.ParseMarkdownHierarchy, buildHierarchy and                      *)
(* ChunkWithMarkdownHierarchy, after section 4.4 of the specification.      *)

MaxLines == 4      \* most lines of a document built line by line

PathSeparator == <<" ", ">", " ">>
TitleLabel == <<"T", "I", "T", "L", "E", ":", " ">>
HierarchyLabel == <<"H", "I", "E", "R", "A", "R", "C", "H", "Y", ":", " ">>
ContentLabel == <<"C", "O", "N", "T", "E", "N", "T", ":", " ">>

\* strings.Join(parts, sep)
RECURSIVE Join(_, _)
Join(parts, sep) ==
    IF parts = <<>> THEN <<>>
    ELSE IF Len(parts) = 1 THEN parts[1]
    ELSE parts[1] \o sep \o Join(Tail(parts), sep)

HasPrefixAt(s, i, sep) ==
    /\ i + Len(sep) <= Len(s)
    /\ Slice(s, i, i + Len(sep)) = sep

\* strings.Index(s[i:], sep) + i for a non-empty sep, or -1
RECURSIVE IndexFrom(_, _, _)
IndexFrom(s, i, sep) ==
    IF i + Len(sep) > Len(s) THEN -1
    ELSE IF HasPrefixAt(s, i, sep) THEN i
    ELSE IndexFrom(s, i + 1, sep)

\* strings.Split(s, sep) for a non-empty sep
RECURSIVE Split(_, _)
Split(s, sep) ==
    LET i == IndexFrom(s, 0, sep)
    IN  IF i < 0 THEN <<s>>
        ELSE <<Slice(s, 0, i)>> \o Split(Slice(s, i + Len(sep), Len(s)), sep)

\* the heading found on the heading line at position p of markdown, with the
\* text up to the next heading line (or the end of the document) as content
HeadingAtRawContent(markdown, p, next) ==
    LET line == LineAt(markdown, p)
        q == SkipSpace(line, 0)
        r == SkipHash(line, q)
        t == SkipSpace(line, r)
    IN  [Header  |-> TrimSpace(Slice(line, t, Len(line))),
         Level   |-> r - q,
         Prefix  |-> Slice(line, q, r),
         Content |-> Slice(markdown, p + Len(line), next)]

HeadingAt(markdown, p, next) ==
    LET line == LineAt(markdown, p)
        q == SkipSpace(line, 0)
        r == SkipHash(line, q)
        t == SkipSpace(line, r)
    IN  [Header  |-> TrimSpace(Slice(line, t, Len(line))),
         Level   |-> r - q,
         Prefix  |-> Slice(line, q, r),
         Content |-> TrimSpace(Slice(markdown, p + Len(line), next))]

\* step 1: the headings of the document in document order
Headings(markdown) ==
    LET H == SortedSeq(HeadingLineStarts(markdown))
    IN  [i \in 1..Len(H) |->
            HeadingAt(markdown, H[i],
                      IF i < Len(H) THEN H[i + 1] ELSE Len(markdown))]

PopStackDeeperOnly(stack, level) ==
    LET keep == {i \in 1..Len(stack) : \A j \in 1..i : stack[j].Level <= level}
    IN  SubSeq(stack, 1, Cardinality(keep))

\* step 2a: pop the entries whose level >= the current heading's level
RECURSIVE PopStack(_, _)
PopStack(stack, level) ==
    IF stack # <<>> /\ stack[Len(stack)].Level >= level
    THEN PopStack(SubSeq(stack, 1, Len(stack) - 1), level)
    ELSE stack

buildHierarchyLeafFirst(stack, currentHeader) ==
    Join(<<currentHeader>> \o [i \in 1..Len(stack) |-> stack[Len(stack) + 1 - i].Header],
         PathSeparator)

buildHierarchyParentOnly(stack, currentHeader) ==
    IF stack = <<>> THEN currentHeader
    ELSE stack[Len(stack)].Header \o PathSeparator \o currentHeader

\* step 2c: the headers of the stack, root first, then the current header
buildHierarchy(stack, currentHeader) ==
    Join([i \in 1..Len(stack) |-> stack[i].Header] \o <<currentHeader>>,
         PathSeparator)

\* steps 2b-2d: the node of heading h under the ancestor stack
MakeNode(stack, h) ==
    [Header       |-> h.Header,
     Content      |-> h.Content,
     Level        |-> h.Level,
     Prefix       |-> h.Prefix,
     ParentLevel  |-> IF stack # <<>> THEN stack[Len(stack)].Level ELSE 0,
     ParentHeader |-> IF stack # <<>> THEN stack[Len(stack)].Header ELSE <<>>,
     ParentPrefix |-> IF stack # <<>> THEN stack[Len(stack)].Prefix ELSE <<>>,
     Hierarchy    |-> buildHierarchy(stack, h.Header)]

\* step 2: one pass over the headings with the ancestor stack
RECURSIVE ParseLoop(_, _, _, _)
ParseLoop(headings, i, stack, out) ==
    IF i > Len(headings) THEN out
    ELSE LET popped == PopStack(stack, headings[i].Level)
             node == MakeNode(popped, headings[i])
         IN  ParseLoop(headings, i + 1, Append(popped, node), Append(out, node))

ParseMarkdownHierarchy(markdown) == ParseLoop(Headings(markdown), 1, <<>>, <<>>)

RenderNodeWithoutHierarchy(n) ==
    TitleLabel \o n.Prefix \o <<" ">> \o n.Header \o <<"\n">>
    \o ContentLabel \o n.Content

\* TITLE / HIERARCHY / CONTENT block of one node
RenderNode(n) ==
    TitleLabel \o n.Prefix \o <<" ">> \o n.Header \o <<"\n">>
    \o HierarchyLabel \o n.Hierarchy \o <<"\n">>
    \o ContentLabel \o n.Content

ChunkWithHierarchySkippingEmpty(markdown) ==
    LET parsed == SelectSeq(ParseMarkdownHierarchy(markdown),
                            LAMBDA node : node.Content # <<>>)
    IN  [i \in 1..Len(parsed) |-> RenderNode(parsed[i])]

ChunkWithMarkdownHierarchy(markdown) ==
    LET parsed == ParseMarkdownHierarchy(markdown)
    IN  [i \in 1..Len(parsed) |-> RenderNode(parsed[i])]

----------------------------------------------------------------------------
(* Specification of ParseMarkdownHierarchy alone: documents built from     *)
(* heading lines of levels 1 to 3 and text lines.                          *)

DocLines == {<<"#", " ", "a">>, <<"#", " ", "b">>,
             <<"#", "#", " ", "a">>, <<"#", "#", " ", "b">>,
             <<"#", "#", "#", " ", "a">>, <<"x">>, <<" ">>}

LineDocuments == {Join(ls, <<"\n">>) : ls \in UNION {[1..k -> DocLines] : k \in 0..MaxLines}}

InitHierarchy ==
    /\ op \in {"ParseMarkdownHierarchy", "ChunkWithMarkdownHierarchy"}
    /\ document \in LineDocuments
    /\ chunkSize = 0 /\ overlap = 0
    /\ delimiter = <<>>
    /\ embeddingDimension = 0
    /\ pc = "call"
    /\ chunks = <<>>
    /\ Idle

CallParseMarkdownHierarchy ==
    /\ op = "ParseMarkdownHierarchy" /\ pc = "call"
    /\ nodes' = ParseMarkdownHierarchy(document)
    /\ pc' = "done"
    /\ UNCHANGED <<op, document, delimiter, chunkSize, overlap,
                   embeddingDimension, chunks, idx, chunksToStore, sub,
                   embedded, stored, chunkIDs, response, lineCount, chunkHeader, args, loopStart,
                   request, docs, results, ancestorStack, calls>>

\* the rendering entry point; nodes keeps the parse it renders
CallChunkWithMarkdownHierarchy ==
    /\ op = "ChunkWithMarkdownHierarchy" /\ pc = "call"
    /\ nodes' = ParseMarkdownHierarchy(document)
    /\ chunks' = ChunkWithMarkdownHierarchy(document)
    /\ pc' = "done"
    /\ UNCHANGED <<op, document, delimiter, chunkSize, overlap,
                   embeddingDimension, idx, chunksToStore, sub,
                   embedded, stored, chunkIDs, response, lineCount,
                   chunkHeader, args, loopStart,
                   request, docs, results, ancestorStack, calls>>

NextHierarchy == CallParseMarkdownHierarchy \/ CallChunkWithMarkdownHierarchy

SpecHierarchy == InitHierarchy /\ [][NextHierarchy]_vars

Parsed == op = "ParseMarkdownHierarchy" /\ pc = "done"

\* the nearest heading before the k-th whose level is strictly smaller, or 0
ParentIndex(k) ==
    LET cands == {j \in 1..(k - 1) : nodes[j].Level < nodes[k].Level}
    IN  IF cands = {} THEN 0 ELSE CHOOSE j \in cands : \A i \in cands : i <= j

\* the heading texts from the root down to the k-th heading, by parent links
RECURSIVE AncestorPath(_)
AncestorPath(k) ==
    IF ParentIndex(k) = 0 THEN nodes[k].Header
    ELSE AncestorPath(ParentIndex(k)) \o PathSeparator \o nodes[k].Header

\* C5: the parent of each heading is the nearest preceding heading of
\* strictly smaller level; with no such heading the parent fields are
\* empty/zero.
C5_NearestShallowerParent ==
    Parsed =>
        \A k \in 1..Len(nodes) :
            LET j == ParentIndex(k)
            IN  IF j = 0
                THEN /\ nodes[k].ParentHeader = <<>>
                     /\ nodes[k].ParentLevel = 0
                     /\ nodes[k].ParentPrefix = <<>>
                ELSE /\ nodes[k].ParentHeader = nodes[j].Header
                     /\ nodes[k].ParentLevel = nodes[j].Level
                     /\ nodes[k].ParentPrefix = nodes[j].Prefix

\* a level-3 heading directly under a level-1 heading, two siblings with the
\* same parent, and a top-level heading after deeper ones
C5_Witness ==
    /\ Parsed
    /\ \E k \in 2..Len(nodes) :
          /\ nodes[k].Level = 3 /\ nodes[k - 1].Level = 1
          /\ nodes[k].ParentHeader = nodes[k - 1].Header
    /\ \E k \in 3..Len(nodes) :
          /\ nodes[k].Level = 2 /\ nodes[k - 1].Level >= 2
          /\ nodes[k - 2].Level = 1
          /\ nodes[k].ParentHeader = nodes[k - 2].Header
          /\ nodes[k].ParentHeader # nodes[k - 1].Header
    /\ \E k \in 2..Len(nodes) :
          /\ nodes[k].Level = 1 /\ nodes[k - 1].Level > 1
          /\ nodes[k].ParentLevel = 0

\* C6: hierarchyPath is the heading texts of the chain of ancestors, root
\* first, then the node's own heading text, joined by " > ".
C6_PathFollowsParentLinks ==
    Parsed => \A k \in 1..Len(nodes) : nodes[k].Hierarchy = AncestorPath(k)

C6_Witness ==
    /\ Parsed
    /\ \E k \in 1..Len(nodes) :
          /\ nodes[k].Level = 3
          /\ ParentIndex(k) # 0
          /\ ParentIndex(ParentIndex(k)) # 0
          /\ ParentIndex(k) < k - 1
          /\ nodes[k].Hierarchy =
                <<"a">> \o PathSeparator \o <<"b">> \o PathSeparator \o <<"a">>

IsSuffix(t, s) ==
    /\ Len(t) <= Len(s)
    /\ SubSeq(s, Len(s) - Len(t) + 1, Len(s)) = t

\* C7: hierarchyPath ends with headingText, and equals it for a top-level
\* node.
C7_PathEndsWithHeader ==
    Parsed =>
        \A k \in 1..Len(nodes) :
            /\ IsSuffix(nodes[k].Header, nodes[k].Hierarchy)
            /\ nodes[k].ParentLevel = 0 => nodes[k].Hierarchy = nodes[k].Header

C7_Witness ==
    /\ Parsed
    /\ Len(nodes) >= 3
    /\ \E k \in 2..Len(nodes) :
          /\ nodes[k].ParentLevel = 0
          /\ nodes[k - 1].ParentLevel > 0
    /\ \E k \in 1..Len(nodes) :
          /\ nodes[k].ParentLevel > 0
          /\ Len(nodes[k].Hierarchy) > Len(nodes[k].Header)

Rendered == op = "ChunkWithMarkdownHierarchy" /\ pc = "done"

HasPrefix(s, prefix) ==
    /\ Len(prefix) <= Len(s)
    /\ SubSeq(s, 1, Len(prefix)) = prefix

\* the lines of a rendered chunk
ChunkLines(chunk) == Split(chunk, <<"\n">>)

LabelsInOrder(lines) ==
    /\ Len(lines) >= 3
    /\ HasPrefix(lines[1], <<"T", "I", "T", "L", "E", ":">>)
    /\ HasPrefix(lines[2], <<"H", "I", "E", "R", "A", "R", "C", "H", "Y", ":">>)
    /\ HasPrefix(lines[3], <<"C", "O", "N", "T", "E", "N", "T", ":">>)

\* C13 as stated: every rendered chunk has exactly three lines, beginning
\* with TITLE:, HIERARCHY:, CONTENT: in this order.
C13_ExactlyThreeLines ==
    Rendered =>
        \A k \in 1..Len(chunks) :
            /\ Len(ChunkLines(chunks[k])) = 3
            /\ LabelsInOrder(ChunkLines(chunks[k]))

\* C13 amended: every rendered chunk has at least three lines, the first
\* three beginning with TITLE:, HIERARCHY:, CONTENT: in this order; the
\* lines after the third are the further lines of the node's content, so
\* there are exactly three when the content has no newline.
C13_ThreeLabelledLinesThenContent ==
    Rendered =>
        \A k \in 1..Len(chunks) :
            LET lines == ChunkLines(chunks[k])
                contentLines == ChunkLines(nodes[k].Content)
            IN  /\ LabelsInOrder(lines)
                /\ Len(lines) = 2 + Len(contentLines)
                /\ \A j \in 2..Len(contentLines) : lines[2 + j] = contentLines[j]

C13_Witness ==
    /\ Rendered
    /\ \E k \in 1..Len(chunks) : Len(ChunkLines(chunks[k])) = 3
    /\ \E k \in 1..Len(chunks) :
          /\ Len(ChunkLines(chunks[k])) = 4
          /\ ChunkLines(chunks[k])[3] = ContentLabel \o <<"x">>
          /\ ChunkLines(chunks[k])[4] = <<"x">>

\* C14: one rendered chunk per heading line, in document order; the k-th
\* chunk's TITLE line carries the k-th heading's marker and title, its
\* HIERARCHY line that node's hierarchy path; no heading line, no chunk.
C14_OneChunkPerHeading ==
    Rendered =>
        LET H == SortedSeq(HeadingLineStarts(document))
        IN  /\ Len(chunks) = Len(H)
            /\ \A k \in 1..Len(H) :
                  LET h == HeadingAt(document, H[k], Len(document))
                      lines == ChunkLines(chunks[k])
                  IN  /\ lines[1] = TitleLabel \o h.Prefix \o <<" ">> \o h.Header
                      /\ lines[2] = HierarchyLabel \o AncestorPath(k)

C14_Witness ==
    /\ Rendered
    /\ Len(chunks) = 3
    /\ Len(document) > 0 /\ document[1] = "x"
    /\ nodes[2].Content = <<>>
    /\ ChunkLines(chunks[3])[1] = TitleLabel \o <<"#", "#", "#", " ", "a">>
    /\ ChunkLines(chunks[3])[2] =
          HierarchyLabel \o <<"b">> \o PathSeparator \o <<"a">> \o PathSeparator \o <<"a">>

----------------------------------------------------------------------------
(* splitter.SplitTextWithDelimiter, splitter.ExtractFirstNonEmptyLines *)

\* strings.Split(s, "") explodes s into its characters ([] for s = "")
Explode(s) == [i \in 1..Len(s) |-> <<s[i]>>]

SplitTextDroppingEmpty(text, delim) ==
    IF delim = <<>> THEN Explode(text)
    ELSE SelectSeq(Split(text, delim), LAMBDA piece : piece # <<>>)

SplitTextWithDelimiter(text, delim) ==
    IF delim = <<>> THEN Explode(text) ELSE Split(text, delim)

RECURSIVE NonEmptyLinesLoop(_, _, _, _)
NonEmptyLinesLoop(lines, i, n, nonEmptyLines) ==
    IF i > Len(lines) THEN nonEmptyLines
    ELSE LET trimmed == TrimSpace(lines[i])
         IN  IF trimmed # <<>>
             THEN IF Len(nonEmptyLines) + 1 >= n
                  THEN Append(nonEmptyLines, trimmed)
                  ELSE NonEmptyLinesLoop(lines, i + 1, n, Append(nonEmptyLines, trimmed))
             ELSE NonEmptyLinesLoop(lines, i + 1, n, nonEmptyLines)

ExtractOneLineTooMany(text, n) ==
    IF text = <<>> \/ n <= 0 THEN <<>>
    ELSE Join(NonEmptyLinesLoop(Split(text, <<"\n">>), 1, n + 1, <<>>), <<"\n">>)

ExtractFirstNonEmptyLines(text, n) ==
    IF text = <<>> \/ n <= 0 THEN <<>>
    ELSE Join(NonEmptyLinesLoop(Split(text, <<"\n">>), 1, n, <<>>), <<"\n">>)

----------------------------------------------------------------------------
(* Specification of the delimiter chunker alone: SplitTextWithDelimiter on  *)
(* any text and separator, ExtractFirstNonEmptyLines on any text and n.     *)

MaxCount == 3      \* largest n handed to ExtractFirstNonEmptyLines

Separators == {<<>>, <<"\n">>, <<"a">>, <<"#", " ">>, <<"a", "a">>}

InitSplitText ==
    /\ op = "SplitTextWithDelimiter"
    /\ document \in StringsUpTo(MaxLen)
    /\ delimiter \in Separators
    /\ chunkSize = 0 /\ overlap = 0
    /\ embeddingDimension = 0
    /\ pc = "call"
    /\ chunks = <<>>
    /\ Idle

InitExtractLines ==
    /\ op = "ExtractFirstNonEmptyLines"
    /\ document \in StringsUpTo(MaxLen)
    /\ lineCount \in (-1)..MaxCount
    /\ delimiter = <<>>
    /\ chunkSize = 0 /\ overlap = 0
    /\ embeddingDimension = 0
    /\ pc = "call"
    /\ chunks = <<>>
    /\ nodes = <<>> /\ idx = 0 /\ chunksToStore = <<>> /\ sub = 0
    /\ embedded = <<>> /\ stored = <<>> /\ chunkIDs = <<>>
    /\ response = NoResponse
    /\ chunkHeader = <<>> /\ args = NoArgs /\ loopStart = 0
    /\ NoSearch /\ NoCalls

InitDelimiter == InitSplitText \/ InitExtractLines

CallSplitTextWithDelimiter ==
    /\ op = "SplitTextWithDelimiter" /\ pc = "call"
    /\ chunks' = SplitTextWithDelimiter(document, delimiter)
    /\ pc' = "done"
    /\ UNCHANGED <<op, document, delimiter, chunkSize, overlap,
                   embeddingDimension, nodes, idx, chunksToStore, sub,
                   embedded, stored, chunkIDs, response, lineCount,
                   chunkHeader, args, loopStart,
                   request, docs, results, ancestorStack, calls>>

CallExtractFirstNonEmptyLines ==
    /\ op = "ExtractFirstNonEmptyLines" /\ pc = "call"
    /\ chunkHeader' = ExtractFirstNonEmptyLines(document, lineCount)
    /\ pc' = "done"
    /\ UNCHANGED <<op, document, delimiter, chunkSize, overlap,
                   embeddingDimension, chunks, nodes, idx, chunksToStore, sub,
                   embedded, stored, chunkIDs, response, lineCount, args,
                   loopStart,
                   request, docs, results, ancestorStack, calls>>

NextDelimiter == CallSplitTextWithDelimiter \/ CallExtractFirstNonEmptyLines

SpecDelimiter == InitDelimiter /\ [][NextDelimiter]_vars

SplitReturned == op = "SplitTextWithDelimiter" /\ pc = "done"

LinesReturned == op = "ExtractFirstNonEmptyLines" /\ pc = "done"

\* C12: joining the pieces of SplitTextWithDelimiter(text, d) with d gives
\* back text; empty pieces between consecutive delimiters are kept (for a
\* one-character d there is one piece more than there are d's in text).
C12_SplitJoinRoundTrip ==
    SplitReturned =>
        /\ Join(chunks, delimiter) = document
        /\ Len(delimiter) = 1 =>
              /\ Len(chunks) =
                    Cardinality({i \in 1..Len(document) : document[i] = delimiter[1]}) + 1
              /\ \A i \in 1..(Len(document) - 1) :
                    (document[i] = delimiter[1] /\ document[i + 1] = delimiter[1])
                        => \E k \in 1..Len(chunks) : chunks[k] = <<>>

C12_Witness ==
    /\ SplitReturned
    /\ Len(delimiter) = 1
    /\ Len(chunks) >= 4
    /\ chunks[1] # <<>>
    /\ \E k \in 2..(Len(chunks) - 1) : chunks[k] = <<>>
    /\ \E i \in 1..(Len(document) - 1) :
          document[i] = delimiter[1] /\ document[i + 1] = delimiter[1]

\* the first n non-blank lines of piece, trimmed, as the claim describes them
FirstNonBlankLines(piece, count) ==
    LET lines == Split(piece, <<"\n">>)
        nonBlank == SelectSeq(lines, LAMBDA l : ~IsBlank(l))
        taken == SubSeq(nonBlank, 1, Min(count, Len(nonBlank)))
    IN  [i \in 1..Len(taken) |-> TrimSpace(taken[i])]

\* C15: ExtractFirstNonEmptyLines(piece, n) is the first n non-blank lines
\* of piece (all of them if there are fewer), trimmed and joined by a
\* newline; it is empty for an empty piece, n <= 0 or no non-blank line.
C15_FirstNonBlankLines ==
    LinesReturned =>
        /\ chunkHeader =
              IF lineCount <= 0 THEN <<>>
              ELSE Join(FirstNonBlankLines(document, lineCount), <<"\n">>)
        /\ (document = <<>> \/ lineCount <= 0 \/ IsBlank(document)) => chunkHeader = <<>>

\* three non-blank lines, the first after a blank one, and n = 2
C15_Witness ==
    /\ LinesReturned
    /\ lineCount = 2
    /\ Len(FirstNonBlankLines(document, 3)) = 3
    /\ chunkHeader = <<"a", "\n", "#">>
    /\ chunkHeader # TrimSpace(document)

----------------------------------------------------------------------------
(* Specification of the four splitters side by side. *)

InitSplitters == InitChunk \/ InitSections \/ InitHierarchy \/ InitDelimiter

NextSplitters == NextChunk \/ NextSections \/ NextHierarchy \/ NextDelimiter

SpecSplitters == InitSplitters /\ [][NextSplitters]_vars

Splitters == {"ChunkText", "SplitTextWithDelimiter", "SplitMarkdownBySections",
              "ParseMarkdownHierarchy", "ChunkWithMarkdownHierarchy"}

\* C11: given the empty string, each of the four splitters returns the
\* empty sequence, never a sequence holding an empty string.
C11_EmptyInputEmptyResult ==
    (op \in Splitters /\ pc = "done" /\ document = <<>>) =>
        /\ chunks = <<>>
        /\ nodes = <<>>

----------------------------------------------------------------------------
(* The split-and-store handlers of package api:                            *)
(*   "sections"  SplitAndStoreMarkdownSectionsHandler                      *)
(*   "delimiter" SplitAndStoreWithDelimiterHandler                         *)
(*   "hierarchy" SplitAndStoreMarkdownWithHierarchyHandler                 *)

MaxDoc == 4        \* longest request document
MaxDim == 3        \* largest embedding dimension

HeaderLineCount == 2

SplitOps == {"sections", "delimiter", "hierarchy"}

(* The chunk-and-store operation:                                          *)
(*   "chunk"     ChunkAndStoreHandler of package api                       *)
(*   "chunk_mcp" the chunk_and_store tool of package mcptools              *)
ChunkOps == {"chunk", "chunk_mcp"}

\* the requests that split or chunk a document and store the pieces
StoreOps == SplitOps \cup ChunkOps

Delimiters == {<<>>, <<"\n">>, <<"a">>}

\* the splitting strategy the handler calls
SplitDocument(o, doc, delim) ==
    CASE o = "sections"  -> SplitMarkdownBySections(doc)
      [] o = "delimiter" -> SplitTextWithDelimiter(doc, delim)
      [] o = "hierarchy" -> ChunkWithMarkdownHierarchy(doc)

\* sectionHeader / chunkHeader; the hierarchy handler extracts none
PieceHeader(o, piece) ==
    CASE o = "sections"  -> ExtractSectionHeader(piece)
      [] o = "delimiter" -> ExtractFirstNonEmptyLines(piece, HeaderLineCount)
      [] o = "hierarchy" -> <<>>

NeedsSubdivisionOffByOne(piece, dim) == Len(piece) > dim + 1

\* if len(section) > embeddingDim
NeedsSubdivision(piece, dim) == Len(piece) > dim

PrependHeaderToAll(header, subChunks) ==
    IF header # <<>> /\ Len(subChunks) > 1
    THEN [i \in 1..Len(subChunks) |-> header \o <<"\n", "\n">> \o subChunks[i]]
    ELSE subChunks

\* if header != "" && len(chunksToStore) > 1 { for i := 1; ... }
PrependHeader(header, subChunks) ==
    IF header # <<>> /\ Len(subChunks) > 1
    THEN [i \in 1..Len(subChunks) |->
             IF i = 1 THEN subChunks[i]
             ELSE header \o <<"\n", "\n">> \o subChunks[i]]
    ELSE subChunks

\* chunksToStore of one piece, where ChunkText returns
ChunksToStoreFor(o, piece, dim) ==
    IF NeedsSubdivision(piece, dim)
    THEN IF o = "hierarchy"
         THEN ChunkText(piece, dim, 0)
         ELSE PrependHeader(PieceHeader(o, piece), ChunkText(piece, dim, 0))
    ELSE <<piece>>

\* the response body: success, error, chunk_ids, chunks_stored
Response(status, success, error, ids, n) ==
    [status |-> status, success |-> success, error |-> error, chunkIDs |-> ids,
     chunksStored |-> n]

\* documents of a chunk-and-store request: ChunkText cuts by offset only
ChunkDocuments ==
    {d \in StringsUpTo(MaxDoc) : \A i \in 1..Len(d) : d[i] \in {"a", " "}}

\* A JSON number of an MCP call arrives as a float64.  The model counts it
\* in halves: h stands for h / 2, so 7 is 3.5.
HalvesOf(k) == 2 * k

Numbers == (-1)..(HalvesOf(MaxDim) + 2)

\* int(chunkSize): the conversion truncates towards zero
FloatToInt(h) == IF h >= 0 THEN h \div 2 ELSE -((-h) \div 2)

InitSplitAndStore ==
    /\ op \in SplitOps
    /\ document \in StringsUpTo(MaxDoc)
    /\ delimiter \in IF op = "delimiter" THEN Delimiters ELSE {<<>>}
    /\ embeddingDimension \in 0..MaxDim
    /\ chunkSize = 0 /\ overlap = 0
    /\ pc = "request"
    /\ chunks = <<>>
    /\ Idle

\* the REST request carries integers, the MCP call numbers
InitChunkAndStore ==
    /\ op \in ChunkOps
    /\ document \in ChunkDocuments
    /\ delimiter = <<>>
    /\ embeddingDimension \in 0..MaxDim
    /\ IF op = "chunk"
       THEN /\ chunkSize \in 0..(MaxDim + 1)
            /\ overlap \in (-1)..MaxDim
            /\ args = NoArgs
       ELSE /\ chunkSize = 0 /\ overlap = 0
            /\ args \in [chunk_size : Numbers, overlap : Numbers]
    /\ pc = "request"
    /\ chunks = <<>>
    /\ nodes = <<>> /\ idx = 0 /\ chunksToStore = <<>> /\ sub = 0
    /\ embedded = <<>> /\ stored = <<>> /\ chunkIDs = <<>>
    /\ response = NoResponse
    /\ lineCount = 0 /\ chunkHeader = <<>> /\ loopStart = 0
    /\ NoSearch /\ NoCalls

(* The other REST handlers and MCP tools of the server:                     *)
(*   "create"           CreateEmbeddingHandler                             *)
(*   "search"           SimilaritySearchHandler                            *)
(*   "search_label"     SimilaritySearchWithLabelHandler                   *)
(*   "search_mcp"       the similarity_search tool                         *)
(*   "search_label_mcp" the similarity_search_with_label tool              *)
SearchHandlers == {"search", "search_label"}
SearchTools == {"search_mcp", "search_label_mcp"}
SearchOps == SearchHandlers \cup SearchTools
LabelOps == {"search_label", "search_label_mcp"}
RestOps == SplitOps \cup {"chunk", "create"} \cup SearchHandlers

\* request bodies: one JSON object, a body that ends inside the object, and
\* an object followed by more text
Bodies == {"object", "truncated", "trailing"}

\* json.NewDecoder(r.Body).Decode(&req) reads the next JSON value of the
\* body and returns; what follows the value is not read
DecodeError(body) == body = "truncated"

\* the request passes the method check and the decoding of its body
Accepted == request.method = "POST" /\ ~DecodeError(request.body)

RequestTexts == {<<>>, <<"a">>}

\* distances count in tenths: 5 is 0.5
Thresholds == {0, 5, 100}

\* a REST request to any handler that is not a POST of one JSON object
InitRequestBody ==
    /\ op \in RestOps
    /\ document \in RequestTexts
    /\ delimiter = <<>>
    /\ embeddingDimension = 1
    /\ chunkSize = 1 /\ overlap = 0
    /\ pc = "request"
    /\ chunks = <<>>
    /\ IdleRequest /\ NoCalls
    /\ \E m \in {"POST", "GET"}, b \in Bodies, l \in RequestTexts :
          /\ ~(m = "POST" /\ b = "object")
          /\ op \notin LabelOps => l = <<>>
          /\ request = [PostRequest EXCEPT !.method = m, !.body = b, !.label = l]

\* a create or search request, or a search tool call
InitCreateOrSearch ==
    /\ op \in SearchOps \cup {"create"}
    /\ document \in RequestTexts
    /\ delimiter = <<>>
    /\ embeddingDimension = 1
    /\ chunkSize = 0 /\ overlap = 0
    /\ pc = "request"
    /\ chunks = <<>>
    /\ IdleRequest /\ NoCalls
    /\ \E l \in RequestTexts, k \in {0, 2}, h \in BOOLEAN, t \in Thresholds :
          /\ op \notin LabelOps => l = <<>>
          /\ op = "create" => (k = 0 /\ ~h)
          /\ ~h => t = 0
          /\ request = [PostRequest EXCEPT !.label = l, !.maxCount = k,
                                          !.hasThreshold = h, !.threshold = t]

Init == InitSplitAndStore \/ InitChunkAndStore \/ InitRequestBody \/ InitCreateOrSearch

\* an MCP tool result carries no HTTP status
StatusOf(o, code) == IF o \in {"chunk_mcp"} \cup SearchTools THEN 0 ELSE code

HandlerVars == <<op, document, delimiter, chunkSize, overlap, embeddingDimension,
                 nodes, lineCount, chunkHeader, args, loopStart, request,
                 ancestorStack, calls>>

\* validation of the required fields: 400 without splitting
RejectRequest ==
    /\ op \in SplitOps /\ pc = "request"
    /\ Accepted
    /\ \/ /\ document = <<>>
          /\ response' = Response(400, FALSE, "Document is required", <<>>, 0)
       \/ /\ document # <<>> /\ op = "delimiter" /\ delimiter = <<>>
          /\ response' = Response(400, FALSE, "Delimiter is required", <<>>, 0)
    /\ pc' = "responded"
    /\ UNCHANGED <<HandlerVars, chunks, idx, chunksToStore, sub, embedded,
                   stored, chunkIDs, docs, results>>

\* the split; an empty result is answered with 400
SplitRequest ==
    /\ op \in SplitOps /\ pc = "request"
    /\ Accepted
    /\ document # <<>>
    /\ op = "delimiter" => delimiter # <<>>
    /\ chunks' = SplitDocument(op, document, delimiter)
    /\ IF Len(chunks') = 0
       THEN /\ response' = Response(400, FALSE, "No chunks generated", <<>>, 0)
            /\ pc' = "responded"
            /\ idx' = idx
       ELSE /\ response' = response
            /\ pc' = "piece"
            /\ idx' = 1
    /\ UNCHANGED <<HandlerVars, chunksToStore, sub, embedded, stored, chunkIDs, docs, results>>

\* the validation of ChunkAndStoreHandler, in the order of its checks; ""
\* when the request passes
ChunkRequestError(doc, size, ov, dim) ==
    IF doc = <<>> THEN "Document is required"
    ELSE IF size <= 0 THEN "ChunkSize must be greater than 0"
    ELSE IF ov < 0 THEN "Overlap cannot be negative"
    ELSE IF ov >= size THEN "Overlap must be less than ChunkSize"
    ELSE IF size > dim
         THEN "ChunkSize must be less than or equal to embedding dimension"
    ELSE ""

\* the validation of the chunk_and_store tool: the sign checks look at the
\* float64 arguments, the two comparisons at the converted integers
ChunkToolError(doc, a, dim) ==
    IF doc = <<>> THEN "document parameter is required"
    ELSE IF a.chunk_size <= 0 THEN "chunk_size must be a positive number"
    ELSE IF a.overlap < 0 THEN "overlap must be a non-negative number"
    ELSE IF FloatToInt(a.overlap) >= FloatToInt(a.chunk_size)
         THEN "overlap must be less than chunk_size"
    ELSE IF FloatToInt(a.chunk_size) > dim
         THEN "chunk_size must be less than or equal to embedding dimension"
    ELSE ""

\* ChunkAndStoreHandler: a validation fails, 400 without chunking
RejectChunkRequest ==
    /\ op = "chunk" /\ pc = "request"
    /\ Accepted
    /\ ChunkRequestError(document, chunkSize, overlap, embeddingDimension) # ""
    /\ response' = Response(400, FALSE,
           ChunkRequestError(document, chunkSize, overlap, embeddingDimension), <<>>, 0)
    /\ pc' = "responded"
    /\ UNCHANGED <<HandlerVars, chunks, idx, chunksToStore, sub, embedded,
                   stored, chunkIDs, docs, results>>

\* ChunkAndStoreHandler: the request passes and is chunked
ChunkRequest ==
    /\ op = "chunk" /\ pc = "request"
    /\ Accepted
    /\ ChunkRequestError(document, chunkSize, overlap, embeddingDimension) = ""
    /\ chunks' = ChunkText(document, chunkSize, overlap)
    /\ IF Len(chunks') = 0
       THEN /\ response' = Response(400, FALSE,
                   "No chunks generated from the document", <<>>, 0)
            /\ pc' = "responded"
            /\ idx' = idx
       ELSE /\ response' = response
            /\ pc' = "piece"
            /\ idx' = 1
    /\ UNCHANGED <<HandlerVars, chunksToStore, sub, embedded, stored, chunkIDs, docs, results>>

\* chunk_and_store: a validation fails, error result without chunking
RejectChunkTool ==
    /\ op = "chunk_mcp" /\ pc = "request"
    /\ ChunkToolError(document, args, embeddingDimension) # ""
    /\ response' = Response(StatusOf(op, 400), FALSE,
           ChunkToolError(document, args, embeddingDimension), <<>>, 0)
    /\ pc' = "responded"
    /\ UNCHANGED <<HandlerVars, chunks, idx, chunksToStore, sub, embedded,
                   stored, chunkIDs, docs, results>>

\* chunk_and_store: the call passes; chunkSizeInt and overlapInt go to
\* ChunkText
ChunkTool ==
    /\ op = "chunk_mcp" /\ pc = "request"
    /\ ChunkToolError(document, args, embeddingDimension) = ""
    /\ chunkSize' = FloatToInt(args.chunk_size)
    /\ overlap' = FloatToInt(args.overlap)
    /\ chunks' = ChunkText(document, chunkSize', overlap')
    /\ IF Len(chunks') = 0
       THEN /\ response' = Response(StatusOf(op, 400), FALSE,
                   "No chunks generated from the document", <<>>, 0)
            /\ pc' = "responded"
            /\ idx' = idx
       ELSE /\ response' = response
            /\ pc' = "piece"
            /\ idx' = 1
    /\ UNCHANGED <<op, document, delimiter, embeddingDimension, nodes,
                   lineCount, chunkHeader, args, loopStart, chunksToStore, sub,
                   embedded, stored, chunkIDs,
                   request, docs, results, ancestorStack, calls>>

\* for _, chunk := range chunks: the chunk goes to embed and store as it is
RangeChunks ==
    /\ op \in ChunkOps
    /\ pc = "piece" /\ idx <= Len(chunks)
    /\ chunksToStore' = <<chunks[idx]>>
    /\ sub' = 1
    /\ pc' = "embed"
    /\ UNCHANGED <<HandlerVars, chunks, idx, embedded, stored, chunkIDs, response, docs, results>>

\* top of the outer loop: subdivide the piece if it is oversize
Subdivide ==
    /\ op \in SplitOps
    /\ pc = "piece" /\ idx <= Len(chunks)
    /\ ~(NeedsSubdivision(chunks[idx], embeddingDimension) /\ embeddingDimension <= 0)
    /\ chunksToStore' = ChunksToStoreFor(op, chunks[idx], embeddingDimension)
    /\ sub' = 1
    /\ pc' = "embed"
    /\ UNCHANGED <<HandlerVars, chunks, idx, embedded, stored, chunkIDs, response, docs, results>>

\* ChunkText(piece, 0, 0) on a non-empty piece: the stride is 0, the loop
\* never ends and the handler never answers
SubdivideDiverges ==
    /\ op \in SplitOps
    /\ pc = "piece" /\ idx <= Len(chunks)
    /\ NeedsSubdivision(chunks[idx], embeddingDimension) /\ embeddingDimension <= 0
    /\ pc' = "diverged"
    /\ UNCHANGED <<HandlerVars, chunks, idx, chunksToStore, sub, embedded,
                   stored, chunkIDs, response, docs, results>>

Current == [text |-> chunksToStore[sub], piece |-> idx, sub |-> sub]

\* store.CreateEmbeddingFromText succeeds
EmbedOk ==
    /\ pc = "embed" /\ sub <= Len(chunksToStore)
    /\ embedded' = Append(embedded, Current)
    /\ pc' = "store"
    /\ UNCHANGED <<HandlerVars, chunks, idx, chunksToStore, sub, stored,
                   chunkIDs, response, docs, results>>

\* store.CreateEmbeddingFromText fails: 500, the request ends
EmbedFail ==
    /\ pc = "embed" /\ sub <= Len(chunksToStore)
    /\ embedded' = Append(embedded, Current)
    /\ response' = Response(StatusOf(op, 500), FALSE,
                            "Failed to create embedding for chunk", <<>>, 0)
    /\ pc' = "responded"
    /\ UNCHANGED <<HandlerVars, chunks, idx, chunksToStore, sub, stored, chunkIDs, docs, results>>

\* store.CreateEmbeddingFromText reads embeddingsResponse.Data[0] before it
\* looks at err: when the API call returns an error and no response, the
\* handler goroutine panics and no response is written
EmbedPanics ==
    /\ pc = "embed" /\ sub <= Len(chunksToStore)
    /\ embedded' = Append(embedded, Current)
    /\ pc' = "panicked"
    /\ UNCHANGED <<HandlerVars, chunks, idx, chunksToStore, sub, stored, chunkIDs,
                   response, docs, results>>

\* uuid.New(): an ID no earlier write has; the model numbers the writes
NewChunkID == Len(stored) + 1

StoreOkNewestIDFirst ==
    /\ pc = "store"
    /\ stored' = Append(stored, Current)
    /\ chunkIDs' = <<NewChunkID>> \o chunkIDs
    /\ IF sub < Len(chunksToStore)
       THEN /\ sub' = sub + 1 /\ idx' = idx /\ pc' = "embed"
       ELSE /\ sub' = sub /\ idx' = idx + 1 /\ pc' = "piece"
    /\ UNCHANGED <<HandlerVars, chunks, chunksToStore, embedded, response, docs, results>>

\* store.StoreEmbedding succeeds: the chunk is in the store, its ID recorded
StoreOk ==
    /\ pc = "store"
    /\ stored' = Append(stored, Current)
    /\ chunkIDs' = Append(chunkIDs, NewChunkID)
    /\ IF sub < Len(chunksToStore)
       THEN /\ sub' = sub + 1 /\ idx' = idx /\ pc' = "embed"
       ELSE /\ sub' = sub /\ idx' = idx + 1 /\ pc' = "piece"
    /\ UNCHANGED <<HandlerVars, chunks, chunksToStore, embedded, response, docs, results>>

StoreFailRollsBack ==
    /\ pc = "store"
    /\ response' = Response(StatusOf(op, 500), FALSE,
                            "Failed to store chunk embedding", <<>>, 0)
    /\ pc' = "responded"
    /\ stored' = <<>>
    /\ UNCHANGED <<HandlerVars, chunks, idx, chunksToStore, sub, embedded,
                   chunkIDs, docs, results>>

\* store.StoreEmbedding fails: 500, the request ends
StoreFail ==
    /\ pc = "store"
    /\ response' = Response(StatusOf(op, 500), FALSE,
                            "Failed to store chunk embedding", <<>>, 0)
    /\ pc' = "responded"
    /\ UNCHANGED <<HandlerVars, chunks, idx, chunksToStore, sub, embedded,
                   stored, chunkIDs, docs, results>>

\* every piece stored: 201 with the chunk IDs
RespondCreated ==
    /\ pc = "piece" /\ idx > Len(chunks)
    /\ response' = Response(StatusOf(op, 201), TRUE, "", chunkIDs, Len(chunkIDs))
    /\ pc' = "responded"
    /\ UNCHANGED <<HandlerVars, chunks, idx, chunksToStore, sub, embedded,
                   stored, chunkIDs, docs, results>>

----------------------------------------------------------------------------
(* Method check and body decoding, shared by every REST handler *)

\* if r.Method != http.MethodPost: 405; if Decode fails: 400
RejectBadRequest ==
    /\ op \in RestOps /\ pc = "request"
    /\ ~Accepted
    /\ response' = IF request.method # "POST"
                   THEN Response(405, FALSE, "Method not allowed. Use POST", <<>>, 0)
                   ELSE Response(400, FALSE, "Invalid request body", <<>>, 0)
    /\ pc' = "responded"
    /\ UNCHANGED <<HandlerVars, chunks, idx, chunksToStore, sub, embedded,
                   stored, chunkIDs, docs, results>>

----------------------------------------------------------------------------
(* CreateEmbeddingHandler *)

\* if req.Content == "": 400
RejectCreate ==
    /\ op = "create" /\ pc = "request"
    /\ Accepted
    /\ document = <<>>
    /\ response' = Response(400, FALSE, "Content is required", <<>>, 0)
    /\ pc' = "responded"
    /\ UNCHANGED <<HandlerVars, chunks, idx, chunksToStore, sub, embedded,
                   stored, chunkIDs, docs, results>>

\* the content as the one chunk of the request
Content == [text |-> document, piece |-> 1, sub |-> 1]

\* the handler past its validation: the embed call fails (500 or the panic
\* of CreateEmbeddingFromText), the store call fails (500), or the document
\* is stored and the response carries its ID
CreateEmbedding ==
    /\ op = "create" /\ pc = "request"
    /\ Accepted
    /\ document # <<>>
    /\ embedded' = <<Content>>
    /\ \/ /\ response' = Response(500, FALSE, "Failed to create embedding", <<>>, 0)
          /\ pc' = "responded"
          /\ UNCHANGED <<stored, chunkIDs>>
       \/ /\ pc' = "panicked"
          /\ UNCHANGED <<response, stored, chunkIDs>>
       \/ /\ response' = Response(500, FALSE, "Failed to store embedding", <<>>, 0)
          /\ pc' = "responded"
          /\ UNCHANGED <<stored, chunkIDs>>
       \/ /\ stored' = <<Content>>
          /\ chunkIDs' = <<NewChunkID>>
          /\ response' = Response(201, TRUE, "", chunkIDs', 0)
          /\ pc' = "responded"
    /\ UNCHANGED <<HandlerVars, chunks, idx, chunksToStore, sub, docs, results>>

----------------------------------------------------------------------------
(* Similarity search: the two REST handlers and the two MCP tools *)

MaxDocs == 3       \* most documents in a reply of the storage engine

RestDefaultMaxCount == 5
ToolDefaultMaxCount == 1
RestFallbackDistance == 99
ToolFallbackDistance == 0

\* the validation of the required fields, in the order of the checks
SearchRequestError(o, text, label) ==
    IF text = <<>>
    THEN IF o \in SearchTools THEN "text parameter is required" ELSE "Text is required"
    ELSE IF o \in LabelOps /\ label = <<>>
    THEN IF o \in SearchTools THEN "label parameter is required" ELSE "Label is required"
    ELSE ""

RejectSearch ==
    /\ op \in SearchOps /\ pc = "request"
    /\ op \in SearchHandlers => Accepted
    /\ SearchRequestError(op, document, request.label) # ""
    /\ response' = Response(StatusOf(op, 400), FALSE,
                            SearchRequestError(op, document, request.label), <<>>, 0)
    /\ pc' = "responded"
    /\ UNCHANGED <<HandlerVars, chunks, idx, chunksToStore, sub, embedded,
                   stored, chunkIDs, docs, results>>

\* if req.MaxCount <= 0 { req.MaxCount = 5 }; the tools default to 1
NumberOfTopSimilarities(o, maxCount) ==
    IF maxCount <= 0
    THEN IF o \in SearchTools THEN ToolDefaultMaxCount ELSE RestDefaultMaxCount
    ELSE maxCount

\* doc.Fields["vector_distance"] as the engine wrote it; "" is a reply
\* without the field
DistanceStrings == {"", "0", "0.5", "1"}

\* a KNN query for k neighbours is answered with at most k documents
Replies(k) ==
    UNION {{[i \in 1..n |-> [id |-> i, vector_distance |-> f[i]]] :
               f \in [1..n -> DistanceStrings]} : n \in 0..Min(k, MaxDocs)}

\* strconv.ParseFloat(str, 32), in tenths.  The engine writes float32
\* distances, which the conversion returns as they are.
ParseFloat(str) ==
    CASE str = "0"   -> [err |-> FALSE, value |-> 0]
      [] str = "0.5" -> [err |-> FALSE, value |-> 5]
      [] str = "1"   -> [err |-> FALSE, value |-> 10]
      [] OTHER       -> [err |-> TRUE, value |-> 0]

\* if err != nil { distance = 9.9 } in the handlers, 0.0 in the tools
ParseDistance(o, str) ==
    IF ParseFloat(str).err
    THEN IF o \in SearchTools THEN ToolFallbackDistance ELSE RestFallbackDistance
    ELSE ParseFloat(str).value

ReachesThreshold(req, distance) == req.hasThreshold /\ distance >= req.threshold

\* req.DistanceThreshold != nil && distance > *req.DistanceThreshold
ExceedsThreshold(req, distance) == req.hasThreshold /\ distance > req.threshold

\* the loop over docs: the results in the order of the reply
RECURSIVE ConvertResults(_, _, _, _, _)
ConvertResults(o, req, reply, i, acc) ==
    IF i > Len(reply) THEN acc
    ELSE LET distance == ParseDistance(o, reply[i].vector_distance)
         IN  IF ExceedsThreshold(req, distance)
             THEN ConvertResults(o, req, reply, i + 1, acc)
             ELSE ConvertResults(o, req, reply, i + 1,
                                 Append(acc, [id |-> reply[i].id,
                                              distance |-> distance]))

\* sort.Slice(results, less by Distance): the result is ordered, and the
\* order of equal distances is not determined
SortedByDistance(rs) ==
    {p \in [1..Len(rs) -> {rs[i] : i \in 1..Len(rs)}] :
        /\ \A i, j \in 1..Len(rs) : i # j => p[i] # p[j]
        /\ \A i \in 1..(Len(rs) - 1) : ~(p[i + 1].distance < p[i].distance)}

\* the handler or tool past its validation: the embed call fails (500 or
\* the panic of CreateEmbeddingFromText), the search fails (500), or the
\* reply is converted, filtered, sorted and answered
SimilaritySearch ==
    /\ op \in SearchOps /\ pc = "request"
    /\ op \in SearchHandlers => Accepted
    /\ SearchRequestError(op, document, request.label) = ""
    /\ embedded' = <<Content>>
    /\ \/ /\ response' = Response(StatusOf(op, 500), FALSE,
                                  "Failed to create embedding", <<>>, 0)
          /\ pc' = "responded"
          /\ UNCHANGED <<docs, results>>
       \/ /\ pc' = "panicked"
          /\ UNCHANGED <<response, docs, results>>
       \/ /\ response' = Response(StatusOf(op, 500), FALSE,
                                  "Failed to perform similarity search", <<>>, 0)
          /\ pc' = "responded"
          /\ UNCHANGED <<docs, results>>
       \/ /\ docs' \in Replies(NumberOfTopSimilarities(op, request.maxCount))
          /\ results' \in SortedByDistance(ConvertResults(op, request, docs', 1, <<>>))
          /\ response' = Response(StatusOf(op, 200), TRUE, "", <<>>, 0)
          /\ pc' = "responded"
    /\ UNCHANGED <<HandlerVars, chunks, idx, chunksToStore, sub, stored, chunkIDs>>

Next ==
    \/ RejectBadRequest
    \/ RejectCreate
    \/ CreateEmbedding
    \/ RejectSearch
    \/ SimilaritySearch
    \/ RejectRequest
    \/ SplitRequest
    \/ RejectChunkRequest
    \/ ChunkRequest
    \/ RejectChunkTool
    \/ ChunkTool
    \/ RangeChunks
    \/ Subdivide
    \/ SubdivideDiverges
    \/ EmbedOk
    \/ EmbedFail
    \/ EmbedPanics
    \/ StoreOk
    \/ StoreFail
    \/ RespondCreated

Spec == Init /\ [][Next]_vars

----------------------------------------------------------------------------
(* Properties of the split-and-store handlers *)

\* every chunk handed to embed or store so far
HandedOver == {embedded[i] : i \in 1..Len(embedded)} \cup {stored[i] : i \in 1..Len(stored)}

\* the k-th window of width dim of a piece (k from 1), as a closed form
Window(piece, dim, k) == Slice(piece, (k - 1) * dim, Min(k * dim, Len(piece)))

WindowCount(piece, dim) == (Len(piece) + dim - 1) \div dim

\* C2 as stated: in every strategy, no chunk handed to embed and store is
\* longer than the size limit.
C2_NoStoredChunkExceedsLimit ==
    embeddingDimension > 0 =>
        \A e \in HandedOver : Len(e.text) <= embeddingDimension

\* C2 amended: a chunk handed to embed and store is no longer than the size
\* limit, except a second or later sub-piece of an oversize piece with a
\* non-empty header in the sections and delimiter strategies, which is at
\* most header + 2 longer.
C2_LimitUpToPrependedHeader ==
    embeddingDimension > 0 =>
        \A e \in HandedOver :
            LET piece == chunks[e.piece]
                header == PieceHeader(op, piece)
                prepended == /\ op \in {"sections", "delimiter"}
                             /\ Len(piece) > embeddingDimension
                             /\ header # <<>>
                             /\ e.sub > 1
            IN  /\ ~prepended => Len(e.text) <= embeddingDimension
                /\ prepended => Len(e.text) <= embeddingDimension + Len(header) + 2

C2_Witness ==
    /\ pc = "responded" /\ response.success
    /\ op = "sections"
    /\ embeddingDimension > 0
    /\ \E i \in 1..Len(stored) :
          /\ stored[i].sub > 1
          /\ Len(stored[i].text) > embeddingDimension
    /\ \E i \in 1..Len(stored) :
          /\ Len(chunks[stored[i].piece]) > embeddingDimension
          /\ Len(stored[i].text) = embeddingDimension

\* C8: for an oversize piece with a non-empty header, the sections and
\* delimiter strategies store the first sub-piece unchanged and every later
\* sub-piece as header + "\n\n" + sub-piece; the hierarchy strategy stores
\* every sub-piece unchanged.
C8_HeaderOnLaterSubPieces ==
    (op \in StoreOps /\ embeddingDimension > 0) =>
        /\ \A e \in HandedOver :
              LET piece == chunks[e.piece]
                  header == PieceHeader(op, piece)
                  window == Window(piece, embeddingDimension, e.sub)
              IN  Len(piece) > embeddingDimension =>
                     /\ e.sub <= WindowCount(piece, embeddingDimension)
                     /\ (op \in {"sections", "delimiter"} /\ header # <<>>) =>
                            e.text = IF e.sub = 1 THEN window
                                     ELSE header \o <<"\n", "\n">> \o window
                     /\ op = "hierarchy" => e.text = window
        /\ (pc = "responded" /\ response.success) =>
              \A p \in 1..Len(chunks) :
                  Len(chunks[p]) > embeddingDimension =>
                      Cardinality({i \in 1..Len(stored) : stored[i].piece = p})
                          = WindowCount(chunks[p], embeddingDimension)

\* a sections or delimiter request stored a prepended later sub-piece of an
\* oversize piece whose first sub-piece went in unchanged
C8_Witness ==
    /\ pc = "responded" /\ response.success
    /\ op \in {"sections", "delimiter"}
    /\ embeddingDimension > 1
    /\ \E i \in 1..(Len(stored) - 1) :
          LET piece == chunks[stored[i].piece]
              header == PieceHeader(op, piece)
          IN  /\ Len(piece) > embeddingDimension
              /\ header # <<>>
              /\ stored[i].sub = 1
              /\ stored[i].text = Window(piece, embeddingDimension, 1)
              /\ stored[i + 1].sub = 2
              /\ stored[i + 1].piece = stored[i].piece
              /\ stored[i + 1].text =
                    header \o <<"\n", "\n">> \o Window(piece, embeddingDimension, 2)

----------------------------------------------------------------------------
(* Properties of the chunk-and-store operation *)

\* chunk_size and overlap as the request gives them, in halves
RequestedSize == IF op = "chunk_mcp" THEN args.chunk_size ELSE HalvesOf(chunkSize)

RequestedOverlap == IF op = "chunk_mcp" THEN args.overlap ELSE HalvesOf(overlap)

InvalidChunking ==
    \/ RequestedSize <= 0
    \/ RequestedOverlap < 0
    \/ RequestedOverlap >= RequestedSize
    \/ RequestedSize > HalvesOf(embeddingDimension)

\* the operation has called ChunkText(document, chunkSize, overlap)
ChunkTextInvoked ==
    /\ op \in ChunkOps
    /\ \/ idx >= 1
       \/ response.error = "No chunks generated from the document"

\* C17: the chunk-and-store operation (REST handler and MCP tool) answers
\* every request with chunk_size <= 0, overlap < 0, overlap >= chunk_size or
\* chunk_size > embedding dimension with an error and without any embed or
\* store call, and so never calls ChunkText with windowSize <= 0 or
\* overlap >= windowSize.
C17_InvalidChunkingRejected ==
    op \in ChunkOps =>
        /\ (InvalidChunking /\ pc # "request") =>
               /\ pc = "responded"
               /\ ~response.success /\ response.error # ""
               /\ embedded = <<>> /\ stored = <<>>
               /\ ~ChunkTextInvoked
        /\ ChunkTextInvoked => (chunkSize > 0 /\ overlap < chunkSize)

----------------------------------------------------------------------------
\* C18: when the embedding dimension held by the handlers is <= 0, a
\* split-and-store operation ends with an error response: it never loops
\* forever and never hands a chunk to embed or store.
C18_NonPositiveLimitFailsFast ==
    (op \in SplitOps /\ embeddingDimension <= 0) =>
        /\ pc # "diverged"
        /\ embedded = <<>> /\ stored = <<>>
        /\ pc = "responded" => (~response.success /\ response.error # "")

----------------------------------------------------------------------------
(* Sequencing of the embed and store calls of one request *)

\* b is the chunk right after a in document order
NextInOrder(a, b) ==
    \/ b.piece = a.piece /\ b.sub = a.sub + 1
    \/ b.piece = a.piece + 1 /\ b.sub = 1

FailureResponse ==
    /\ pc = "responded"
    /\ ~response.success /\ response.error # ""

\* the calls made so far: every stored chunk was embedded before it, at most
\* one embedded chunk is not stored yet, and the calls follow document order
InSequence ==
    op \in StoreOps =>
    /\ Len(stored) <= Len(embedded)
    /\ Len(embedded) <= Len(stored) + 1
    /\ \A i \in 1..Len(stored) : stored[i] = embedded[i]
    /\ Len(embedded) > 0 => (embedded[1].piece = 1 /\ embedded[1].sub = 1)
    /\ \A i \in 1..(Len(embedded) - 1) : NextInOrder(embedded[i], embedded[i + 1])
    /\ op \in ChunkOps =>
          \A i \in 1..Len(embedded) :
              embedded[i].sub = 1 /\ embedded[i].text = chunks[embedded[i].piece]
    /\ pc = "store" => Len(embedded) = Len(stored) + 1
    /\ Len(embedded) = Len(stored) + 1 => (pc = "store" \/ FailureResponse)
    /\ (pc = "responded" /\ response.success) =>
          /\ Len(stored) = Len(embedded)
          /\ response.chunksStored = Len(stored)
          /\ Len(stored) > 0 /\ stored[Len(stored)].piece = Len(chunks)

\* a store call follows the successful embedding of the same chunk, an embed
\* call follows the successful store of the chunk before, and nothing is
\* embedded or stored once the response is written
OneCallAtATime ==
    op \in StoreOps =>
    /\ stored' # stored =>
          /\ pc = "store"
          /\ stored' = Append(stored, embedded[Len(embedded)])
    /\ embedded' # embedded =>
          /\ pc = "embed" /\ Len(embedded) = Len(stored)
          /\ Len(embedded') = Len(embedded) + 1
    /\ response # NoResponse =>
          (embedded' = embedded /\ stored' = stored /\ response' = response)

\* C20: within one split-and-store or chunk-and-store request the chunks are
\* processed one at a time in document order: chunk k is stored only after
\* its own embedding succeeded, chunk k+1 is embedded only after chunk k
\* was stored, and the first embed or store failure ends the request with a
\* failure response (success=false, error set) without embedding or storing
\* any later chunk.
C20_SequentialUntilFirstFailure == [](InSequence) /\ [][OneCallAtATime]_vars

----------------------------------------------------------------------------
(* Termination of the splitters.  ChunkText's for loop runs one iteration  *)
(* per step; the other splitters range over a slice that a library call    *)
(* built and are taken as one step each.                                   *)

InitChunkLoop ==
    /\ op = "ChunkText"
    /\ document \in StringsUpTo(MaxLen)
    /\ chunkSize \in 1..MaxChunk
    /\ overlap \in 0..(chunkSize - 1)
    /\ delimiter = <<>>
    /\ embeddingDimension = 0
    /\ pc = "loop"
    /\ chunks = <<>>
    /\ Idle

\* start < len(text): the body and start += chunkSize - overlap.  The loop
\* has no iteration limit; the model stops following it one iteration past
\* len(text).
LoopIterate ==
    /\ op = "ChunkText" /\ pc = "loop"
    /\ loopStart < Len(document)
    /\ Len(chunks) <= Len(document)
    /\ chunks' = Append(chunks, Slice(document, loopStart,
                                     ChunkEnd(loopStart, chunkSize, Len(document))))
    /\ loopStart' = loopStart + ChunkStride(chunkSize, overlap)
    /\ UNCHANGED <<op, document, delimiter, chunkSize, overlap,
                   embeddingDimension, pc, nodes, idx, chunksToStore, sub,
                   embedded, stored, chunkIDs, response, lineCount,
                   chunkHeader, args,
                   request, docs, results, ancestorStack, calls>>

\* start >= len(text): return chunks
LoopReturn ==
    /\ op = "ChunkText" /\ pc = "loop"
    /\ loopStart >= Len(document)
    /\ pc' = "done"
    /\ UNCHANGED <<op, document, delimiter, chunkSize, overlap,
                   embeddingDimension, chunks, nodes, idx, chunksToStore, sub,
                   embedded, stored, chunkIDs, response, lineCount,
                   chunkHeader, args, loopStart,
                   request, docs, results, ancestorStack, calls>>

InitTermination == InitChunkLoop \/ InitSections \/ InitHierarchy \/ InitDelimiter

NextTermination ==
    \/ LoopIterate
    \/ LoopReturn
    \/ NextSections
    \/ NextHierarchy
    \/ NextDelimiter

\* a running loop takes its next iteration or returns
SpecTermination ==
    InitTermination /\ [][NextTermination]_vars /\ WF_vars(LoopIterate \/ LoopReturn)

\* the iterations made and the pieces returned, against the input length
StepsWithinInput ==
    /\ op = "ChunkText" =>
          /\ Len(chunks) <= Len(document)
          /\ loopStart <= Len(chunks) * chunkSize
          /\ pc = "done" => chunks = ChunkText(document, chunkSize, overlap)
    /\ pc = "done" =>
          /\ Len(chunks) <= Len(document) + 1
          /\ Len(nodes) <= Len(document)
          /\ Len(chunkHeader) <= Len(document)

----------------------------------------------------------------------------
(* The success response *)

\* the ID under which the i-th write of the request went to the store
StoredID(i) == i

\* C21: a successful chunk-and-store or split-and-store response reports
\* chunks_stored equal to the length of chunk_ids and to the number of chunks
\* the request wrote to the store, and chunk_ids lists the IDs of the writes
\* in the order the chunks were produced and stored.
C21_SuccessCountsStoredChunks ==
    (op \in StoreOps /\ pc = "responded" /\ response.success) =>
        /\ response.chunksStored = Len(response.chunkIDs)
        /\ response.chunksStored = Len(stored)
        /\ \A i \in 1..Len(stored) : response.chunkIDs[i] = StoredID(i)
        /\ \A i \in 1..(Len(stored) - 1) :
              \/ stored[i].piece < stored[i + 1].piece
              \/ stored[i].piece = stored[i + 1].piece
                    /\ stored[i].sub < stored[i + 1].sub

\* a successful request that stored several pieces, one of them subdivided
C21_Witness ==
    /\ pc = "responded" /\ response.success
    /\ response.chunksStored >= 3
    /\ Len(chunks) >= 2
    /\ \E i \in 1..Len(stored) : stored[i].sub = 2

----------------------------------------------------------------------------
(* A request that fails part-way *)

IsPrefix(s, t) == Len(s) <= Len(t) /\ SubSeq(t, 1, Len(s)) = s

\* the request failed at the embed or store call of a chunk
FailedAtChunk == FailureResponse /\ Len(embedded) > 0

\* at the failure of chunk k the store holds the k-1 chunks before it, and
\* the response carries no ID
PrefixLeftInStore ==
    /\ FailedAtChunk =>
          /\ Len(stored) = Len(embedded) - 1
          /\ IsPrefix(stored, embedded)
    /\ FailureResponse =>
          /\ response.chunkIDs = <<>>
          /\ response.chunksStored = 0
    /\ pc = "panicked" =>
          /\ Len(stored) = Len(embedded) - 1
          /\ IsPrefix(stored, embedded)
          /\ response = NoResponse

\* C27: if embedding or storing chunk k of a request fails, the chunks
\* before it that were already written stay in the store (no step takes a
\* write back), while the failure response carries none of their IDs.
C27_NoRollbackOnFailure == [](PrefixLeftInStore) /\ [][IsPrefix(stored, stored')]_vars

\* a store call failed after earlier chunks were written: a non-empty strict
\* prefix of the request's chunks is in the store
C27_Witness ==
    /\ FailedAtChunk
    /\ response.error = "Failed to store chunk embedding"
    /\ Len(stored) >= 2
    /\ response.chunkIDs = <<>>
    /\ chunkIDs # <<>>

----------------------------------------------------------------------------
(* The header of a subdivided section *)

\* the section begins with a heading line
BeginsWithHeading(section) ==
    /\ section # <<>> /\ section[1] = "#"
    /\ IsHeadingLineAt(section, 0)

HeaderLine(section) == TrimSpace(LineAt(section, 0))

\* C25: when a markdown section that begins with a heading is larger than
\* the embedding dimension and is subdivided, every stored sub-chunk of it,
\* the first one included, starts with the section's header line.
C25_EverySubChunkStartsWithHeader ==
    (op = "sections" /\ embeddingDimension > 0) =>
        \A i \in 1..Len(stored) :
            LET section == chunks[stored[i].piece]
            IN  (Len(section) > embeddingDimension /\ BeginsWithHeading(section)) =>
                    HasPrefix(stored[i].text, HeaderLine(section))

----------------------------------------------------------------------------
(* The pieces of the delimiter strategy *)

\* strings.Count(s[i:], sep) for a non-empty sep: occurrences that do not
\* overlap, from the left
RECURSIVE CountFrom(_, _, _)
CountFrom(s, i, sep) ==
    LET j == IndexFrom(s, i, sep)
    IN  IF j = -1 THEN 0 ELSE 1 + CountFrom(s, j + Len(sep), sep)

NoOversizePiece == \A p \in 1..Len(chunks) : Len(chunks[p]) <= embeddingDimension

\* C30: the delimiter split-and-store operation embeds and stores every piece
\* the split returns, empty and whitespace-only pieces included; for a
\* non-empty document and delimiter with no oversize piece chunks_stored is
\* the number of delimiter occurrences plus one; the 'No chunks generated'
\* error never occurs.
C30_EveryPieceStored ==
    op = "delimiter" =>
        /\ response.error # "No chunks generated"
        /\ pc \in {"piece", "embed", "store"} =>
              Len(chunks) = CountFrom(document, 0, delimiter) + 1
        /\ \A i \in 1..Len(embedded) :
              ~NeedsSubdivision(chunks[embedded[i].piece], embeddingDimension) =>
                  embedded[i].text = chunks[embedded[i].piece]
        /\ (pc = "responded" /\ response.success) =>
              /\ \A p \in 1..Len(chunks) : \E i \in 1..Len(stored) : stored[i].piece = p
              /\ NoOversizePiece =>
                    /\ response.chunksStored = CountFrom(document, 0, delimiter) + 1
                    /\ \A i \in 1..Len(stored) : stored[i].text = chunks[i]

\* consecutive delimiters: an empty piece and a non-empty one were stored
C30_Witness ==
    /\ op = "delimiter"
    /\ pc = "responded" /\ response.success
    /\ NoOversizePiece
    /\ response.chunksStored >= 3
    /\ \E i \in 1..Len(stored) : stored[i].text = <<>>
    /\ \E i \in 1..Len(stored) : stored[i].text # <<>>
    /\ \E i \in 0..(Len(document) - 2) :
          HasPrefixAt(document, i, delimiter \o delimiter)

----------------------------------------------------------------------------
(* Content kept by SplitMarkdownBySections *)

\* the characters of s that are not whitespace, in order
NonSpace(s) == SelectSeq(s, LAMBDA c : ~IsSpace(c))

RECURSIVE Concat(_)
Concat(ss) == IF ss = <<>> THEN <<>> ELSE Head(ss) \o Concat(Tail(ss))

\* C29: SplitMarkdownBySections loses and reorders no content: the
\* non-whitespace characters of the sections, read in order, are those of
\* the document, and a document with h >= 1 heading lines yields h sections,
\* plus one if the text before the first heading is not blank.
C29_NoContentLost ==
    SectionsReturned =>
        /\ NonSpace(Concat(chunks)) = NonSpace(document)
        /\ LET H == SortedSeq(HeadingLineStarts(document))
           IN  Len(H) >= 1 =>
                  Len(chunks) = Len(H) + (IF IsBlank(Slice(document, 0, H[1]))
                                         THEN 0 ELSE 1)

----------------------------------------------------------------------------
(* Content of a node *)

\* the text strictly between the k-th heading line and the next heading line
\* or the end of the document
TextAfterHeading(k) ==
    LET H == SortedSeq(HeadingLineStarts(document))
    IN  Slice(document, LineEnd(document, H[k]),
              IF k < Len(H) THEN H[k + 1] ELSE Len(document))

\* C26: a node of ParseMarkdownHierarchy whose heading line is followed by
\* nothing but whitespace and newlines before the next heading line or the
\* end of the document has the empty string as content.
C26_BlankTextGivesEmptyContent ==
    Parsed =>
        /\ Len(nodes) = Cardinality(HeadingLineStarts(document))
        /\ \A k \in 1..Len(nodes) :
              IsBlank(TextAfterHeading(k)) => nodes[k].Content = <<>>

\* a heading followed by a blank line and the next heading, and a node with
\* content
C26_Witness ==
    /\ Parsed
    /\ \E k \in 1..(Len(nodes) - 1) :
          /\ Len(TextAfterHeading(k)) >= 2
          /\ IsBlank(TextAfterHeading(k))
          /\ nodes[k].Content = <<>>
    /\ \E k \in 1..Len(nodes) : nodes[k].Content # <<>>

----------------------------------------------------------------------------
(* The pass of parseHierarchy over the headings, one heading per step, with *)
(* its ancestor stack.                                                      *)

InitParse ==
    /\ op = "ParseMarkdownHierarchy"
    /\ document \in LineDocuments
    /\ chunkSize = 0 /\ overlap = 0
    /\ delimiter = <<>>
    /\ embeddingDimension = 0
    /\ pc = "heading"
    /\ chunks = <<>>
    /\ Idle

\* the step without 2a: the node is pushed on the stack as it stands
ProcessHeadingNoPop ==
    /\ op = "ParseMarkdownHierarchy" /\ pc = "heading"
    /\ Len(nodes) < Len(Headings(document))
    /\ LET h == Headings(document)[Len(nodes) + 1]
           node == MakeNode(PopStack(ancestorStack, h.Level), h)
       IN  /\ ancestorStack' = Append(ancestorStack, node)
           /\ nodes' = Append(nodes, node)
    /\ UNCHANGED <<op, document, delimiter, chunkSize, overlap,
                   embeddingDimension, chunks, idx, chunksToStore, sub,
                   embedded, stored, chunkIDs, response, lineCount,
                   chunkHeader, args, loopStart, request, docs, results, calls, pc>>

\* steps 2a-2e for the next heading: pop, fill the node, push, append
ProcessHeading ==
    /\ op = "ParseMarkdownHierarchy" /\ pc = "heading"
    /\ Len(nodes) < Len(Headings(document))
    /\ LET h == Headings(document)[Len(nodes) + 1]
           popped == PopStack(ancestorStack, h.Level)
           node == MakeNode(popped, h)
       IN  /\ ancestorStack' = Append(popped, node)
           /\ nodes' = Append(nodes, node)
    /\ UNCHANGED <<op, document, delimiter, chunkSize, overlap,
                   embeddingDimension, chunks, idx, chunksToStore, sub,
                   embedded, stored, chunkIDs, response, lineCount,
                   chunkHeader, args, loopStart, request, docs, results, calls, pc>>

\* no heading is left: the output sequence is returned
ParseReturn ==
    /\ op = "ParseMarkdownHierarchy" /\ pc = "heading"
    /\ Len(nodes) = Len(Headings(document))
    /\ pc' = "done"
    /\ UNCHANGED <<op, document, delimiter, chunkSize, overlap,
                   embeddingDimension, chunks, idx, chunksToStore, sub,
                   embedded, stored, chunkIDs, response, lineCount,
                   chunkHeader, args, loopStart, request, docs, results, calls, nodes,
                   ancestorStack>>

NextParse == ProcessHeading \/ ParseReturn

SpecParse == InitParse /\ [][NextParse]_vars

StrictlyIncreasing(levels) ==
    \A i \in 1..(Len(levels) - 1) : levels[i] < levels[i + 1]

PathComponents(path) == Len(Split(path, PathSeparator))

\* C28: during ParseMarkdownHierarchy, after each heading has been processed
\* the levels on the ancestor stack are strictly increasing from bottom to
\* top and the top entry is the heading just processed; every node's
\* ParentLevel is smaller than its Level and its hierarchy path has at most
\* Level components.
C28_StackLevelsIncrease ==
    /\ StrictlyIncreasing([i \in 1..Len(ancestorStack) |-> ancestorStack[i].Level])
    /\ nodes # <<>> =>
          /\ ancestorStack # <<>>
          /\ ancestorStack[Len(ancestorStack)] = nodes[Len(nodes)]
    /\ \A k \in 1..Len(nodes) :
          /\ nodes[k].ParentLevel < nodes[k].Level
          /\ PathComponents(nodes[k].Hierarchy) <= nodes[k].Level
    /\ pc = "done" => nodes = ParseMarkdownHierarchy(document)

\* a sibling heading has just replaced the entry of its level on a stack
\* that keeps its two ancestors
C28_Witness ==
    /\ op = "ParseMarkdownHierarchy" /\ pc = "heading"
    /\ Len(nodes) = 4
    /\ Len(ancestorStack) = 3
    /\ nodes[3].Level = nodes[4].Level
    /\ ancestorStack[3] = nodes[4]

----------------------------------------------------------------------------
(* Splitter invocations running side by side.  Each invocation has a frame *)
(* with its arguments and its local variables; a step of one invocation is *)
(* one loop iteration of its function.                                     *)

MaxCalls == 2      \* invocations running side by side

CallInputs ==
    {[fn |-> "ChunkText", text |-> t, size |-> 2, ov |-> o] :
        t \in {<<"a", "#", "a", " ">>, <<"#", "a">>}, o \in {0, 1}}
    \cup {[fn |-> "SplitMarkdownBySections", text |-> t, size |-> 0, ov |-> 0] :
        t \in {<<"a", "\n", "#", " ", "a", "\n", "#", " ", "a", "a">>,
               <<"#", " ", "a">>}}
    \cup {[fn |-> "ParseMarkdownHierarchy", text |-> t, size |-> 0, ov |-> 0] :
        t \in {<<"#", " ", "a", "\n", "#", "#", " ", "b", "\n", "#", " ", "b">>,
               <<"#", "#", " ", "a", "\n", "#", " ", "b">>}}

\* the frame of a call that has not run yet
NewCall(in) ==
    [fn |-> in.fn, text |-> in.text, size |-> in.size, ov |-> in.ov,
     at |-> "run", start |-> 0, local |-> <<>>, stack |-> <<>>, out |-> <<>>]

InitCalls ==
    /\ op = "concurrent"
    /\ document = <<>>
    /\ chunkSize = 0 /\ overlap = 0
    /\ delimiter = <<>>
    /\ embeddingDimension = 0
    /\ pc = "run"
    /\ chunks = <<>>
    /\ IdleRequest /\ request = PostRequest
    /\ \E ins \in [1..MaxCalls -> CallInputs] :
          calls = [i \in 1..MaxCalls |-> NewCall(ins[i])]

CallChunksOfFirstCall(i) == calls[1].local

\* chunks := []string{} is a local of the invocation
CallChunks(i) == calls[i].local

\* the ancestor stack is a local of one parseHierarchy call
CallStack(i) == calls[i].stack

\* one iteration of ChunkText's loop in invocation i
CallChunkStep(i) ==
    /\ calls[i].fn = "ChunkText" /\ calls[i].at = "run"
    /\ calls[i].start < Len(calls[i].text)
    /\ LET c == calls[i]
           piece == Slice(c.text, c.start, ChunkEnd(c.start, c.size, Len(c.text)))
       IN  calls' = [calls EXCEPT ![i].local = Append(CallChunks(i), piece),
                                  ![i].start = c.start + ChunkStride(c.size, c.ov)]

\* SplitMarkdownBySections up to its loop: the empty document and the
\* document without header return, otherwise the content before the first
\* header is taken
CallSectionsEnter(i) ==
    /\ calls[i].fn = "SplitMarkdownBySections" /\ calls[i].at = "run"
    /\ calls[i].start = 0
    /\ LET c == calls[i]
           headerMatches == FindAllStringIndex(c.text)
       IN  IF c.text = <<>>
           THEN calls' = [calls EXCEPT ![i].at = "done", ![i].out = <<>>]
           ELSE IF Len(headerMatches) = 0
           THEN calls' = [calls EXCEPT ![i].at = "done",
                                       ![i].out = <<TrimSpace(c.text)>>]
           ELSE calls' = [calls EXCEPT
                              ![i].local = PreHeaderSections(c.text, headerMatches),
                              ![i].start = 1]

\* one iteration of SplitMarkdownBySections' loop over the header matches
CallSectionsStep(i) ==
    /\ calls[i].fn = "SplitMarkdownBySections" /\ calls[i].at = "run"
    /\ calls[i].start >= 1
    /\ calls[i].start <= Len(FindAllStringIndex(calls[i].text))
    /\ LET c == calls[i]
           section == SectionOf(c.text, FindAllStringIndex(c.text), c.start)
       IN  calls' = [calls EXCEPT
                        ![i].local = IF section # <<>>
                                     THEN Append(c.local, section) ELSE c.local,
                        ![i].start = c.start + 1]

\* one heading of parseHierarchy in invocation i
CallParseStep(i) ==
    /\ calls[i].fn = "ParseMarkdownHierarchy" /\ calls[i].at = "run"
    /\ Len(calls[i].local) < Len(Headings(calls[i].text))
    /\ LET c == calls[i]
           h == Headings(c.text)[Len(c.local) + 1]
           popped == PopStack(CallStack(i), h.Level)
           node == MakeNode(popped, h)
       IN  calls' = [calls EXCEPT ![i].stack = Append(popped, node),
                                  ![i].local = Append(c.local, node)]

\* the loop of invocation i is over: it returns its local result
CallLoopOver(i) ==
    LET c == calls[i]
    IN  \/ c.fn = "ChunkText" /\ c.start >= Len(c.text)
        \/ /\ c.fn = "SplitMarkdownBySections"
           /\ c.start > Len(FindAllStringIndex(c.text))
        \/ /\ c.fn = "ParseMarkdownHierarchy"
           /\ Len(c.local) = Len(Headings(c.text))

CallReturn(i) ==
    /\ calls[i].at = "run"
    /\ CallLoopOver(i)
    /\ calls' = [calls EXCEPT ![i].at = "done", ![i].out = calls[i].local]

CallsFrame == <<op, document, delimiter, chunkSize, overlap,
                   embeddingDimension, pc, chunks, nodes, idx, chunksToStore,
                   sub, embedded, stored, chunkIDs, response, lineCount,
                   chunkHeader, args, loopStart, request, docs, results,
                   ancestorStack>>

ChunkTextRuns == \E i \in 1..MaxCalls : CallChunkStep(i) /\ UNCHANGED CallsFrame
SectionsEnters == \E i \in 1..MaxCalls : CallSectionsEnter(i) /\ UNCHANGED CallsFrame
SectionsRuns == \E i \in 1..MaxCalls : CallSectionsStep(i) /\ UNCHANGED CallsFrame
ParseRuns == \E i \in 1..MaxCalls : CallParseStep(i) /\ UNCHANGED CallsFrame
CallReturns == \E i \in 1..MaxCalls : CallReturn(i) /\ UNCHANGED CallsFrame

NextCalls ==
    \/ ChunkTextRuns
    \/ SectionsEnters
    \/ SectionsRuns
    \/ ParseRuns
    \/ CallReturns

SpecCalls == InitCalls /\ [][NextCalls]_vars

\* what the invocation returns when it runs alone on its input
RunAlone(c) ==
    IF c.fn = "ChunkText" THEN ChunkText(c.text, c.size, c.ov)
    ELSE IF c.fn = "SplitMarkdownBySections" THEN SplitMarkdownBySections(c.text)
    ELSE ParseMarkdownHierarchy(c.text)

\* C24: the splitters share no mutable state: when several splitter
\* invocations (ParseMarkdownHierarchy calls included, each with its own
\* ancestor stack) run side by side and interleave arbitrarily, each
\* invocation returns exactly the result it returns when run alone on the
\* same input.
C24_InterleavedCallsReturnAloneResult ==
    \A i \in 1..Len(calls) :
        calls[i].at = "done" => calls[i].out = RunAlone(calls[i])

\* two invocations of the same splitter on different inputs have
\* interleaved: one returned while the other was in the middle of its loop
C24_Witness ==
    /\ op = "concurrent"
    /\ calls[1].at = "run" /\ Len(calls[1].local) = 1
    /\ calls[2].at = "done" /\ Len(calls[2].out) >= 2
    /\ calls[1].fn = calls[2].fn
    /\ calls[1].text # calls[2].text

----------------------------------------------------------------------------
(* Requests the REST handlers have to turn away *)

\* the request lacks a required field
MissingField ==
    \/ document = <<>>
    \/ op = "search_label" /\ request.label = <<>>

\* the request is not a POST, its body is not one well-formed JSON text, or
\* a required field is empty or missing
InvalidRequest ==
    \/ request.method # "POST"
    \/ request.body # "object"
    \/ MissingField

\* C22: every REST handler that creates or searches embeddings answers a
\* non-POST request with 405, and a request with a malformed JSON body or an
\* empty or missing required field (content, text, label, document) with
\* 400; the response has success=false and a non-empty error, and no embed,
\* search or store call is made, so the store is unchanged.
C22_InvalidRequestRejected ==
    (op \in RestOps /\ InvalidRequest /\ pc # "request") =>
        /\ pc = "responded"
        /\ response.status = IF request.method # "POST" THEN 405 ELSE 400
        /\ ~response.success /\ response.error # ""
        /\ embedded = <<>> /\ stored = <<>>
        /\ docs = <<>> /\ results = <<>>

\* the distance the response reports for a document of the reply
ReportedDistance(d) == ParseDistance(op, d.vector_distance)

\* the documents of the reply within the threshold
WithinThreshold ==
    {i \in 1..Len(docs) :
        request.hasThreshold => ReportedDistance(docs[i]) <= request.threshold}

\* C23: a similarity search (REST and MCP, with or without label) returns
\* exactly the documents returned by the storage engine whose distance is
\* <= distance_threshold (all of them when no threshold is given), ordered
\* by non-decreasing distance.
C23_ResultsWithinThresholdAscending ==
    (op \in SearchOps /\ pc = "responded" /\ response.success) =>
        /\ {results[i].id : i \in 1..Len(results)} = {docs[i].id : i \in WithinThreshold}
        /\ Len(results) = Cardinality(WithinThreshold)
        /\ \A i \in 1..Len(results) :
              \E j \in 1..Len(docs) :
                  /\ docs[j].id = results[i].id
                  /\ results[i].distance = ReportedDistance(docs[j])
        /\ \A i \in 1..(Len(results) - 1) :
              results[i].distance <= results[i + 1].distance
        /\ stored = <<>>

\* a search with a threshold: one document of the reply lies exactly at the
\* threshold and is returned, one beyond it is left out, and the results come
\* in another order than the reply
C23_Witness ==
    /\ op \in SearchOps /\ pc = "responded" /\ response.success
    /\ request.hasThreshold
    /\ Len(docs) = 3 /\ Len(results) = 2
    /\ \E i \in 1..2 : results[i].distance = request.threshold
    /\ results[1].id > results[2].id
    /\ results[1].distance < results[2].distance

====
